---- MODULE Spec2Model ----
(***************************************************************************)
(* Verification model of the declarative extraction core of                *)
(* airbyte-python-cdk: the pagination strategies (PageIncrement,           *)
(* CursorPaginationStrategy), the secret registry (airbyte_secrets_utils), *)
(* the bounded test read (connector builder read_stream), the              *)
(* interpolation wrappers, StreamSlice and SinglePartitionRouter.          *)
(*                                                                         *)
(* One specification per component:                                        *)
(*   SpecPagination     a pagination strategy driven by next_page_token    *)
(*                      and reset                                          *)
(*   SpecSecrets        the process-wide secret registry, filter_secrets   *)
(*   SpecRead           the bounded test read walking partitions and pages *)
(*   SpecInterpolation  InterpolatedBoolean.eval, InterpolatedMapping.eval *)
(*   SpecSlices         StreamSlice construction, comparison, accessors    *)
(*   SpecRouter         the calls of a SinglePartitionRouter               *)
(*   SpecBackoff        ConstantBackoffStrategy.backoff_time               *)
(*   SpecRuns           two runs of one process sharing the registry       *)
(*   SpecBuilder        get_limits, create_source and handle_request       *)
(*   SpecThrottled      a request against an API that always answers 429   *)
(*   SpecCsv            the lazy CSV row generator and its dialect         *)
(*   SpecUnstructured   UnstructuredParser.parse_records and its retries   *)
(*   SpecDiscovery      get_secrets over a connection specification        *)
(***************************************************************************)
EXTENDS Integers, Sequences, FiniteSets, TLC

VARIABLES
    \* ---- pagination strategy (PageIncrement / CursorPaginationStrategy)
    kind,                     \* which strategy variant was constructed
    constructed,              \* FALSE when __post_init__ raised
    start_from_page,          \* PageIncrement.start_from_page
    page_size,                \* PageIncrement._page_size (None or an int)
    inject_on_first_request,  \* PageIncrement.inject_on_first_request
    page,                     \* PageIncrement._page
    stop_condition,           \* CursorPaginationStrategy._stop_condition
    initial_cursor,           \* CursorPaginationStrategy._initial_cursor
    calls,                    \* next_page_token calls since construction / last reset
    op,                       \* the last operation, its arguments and outcome
    \* ---- secret registry (utils/airbyte_secrets_utils.py)
    SECRETS_FROM_CONFIG,      \* __SECRETS_FROM_CONFIG, the registered secrets
    text,                     \* the text a run renders through filter_secrets
    filtered,                 \* the result of filter_secrets(text) against the
                              \* current registry, once it was called
    \* ---- bounded test read (connector_builder read_stream)
    limits,                   \* TestReadLimits: max_records, max_slices, max_pages_per_slice
    partitions,               \* number of partitions the partition router yields
    slices,                   \* StreamRead.slices: per partition, the records of each page
    slice_open,               \* the last slice of the report is still being paginated
    ran_out,                  \* some partition's pagination ended below the page ceiling
    logs,                     \* StreamRead.logs
    test_read_limit_reached,  \* StreamRead.test_read_limit_reached
    exc,                      \* the exception the underlying read raised, if any
    pc,                       \* "idle", "reading", "returned" (a report) or "raised"
    \* ---- interpolation (InterpolatedBoolean, InterpolatedMapping)
    ib_condition,             \* InterpolatedBoolean.condition
    mapping,                  \* InterpolatedMapping.mapping, in insertion order
    context,                  \* what each template resolves to under the config
    last_eval,                \* the last eval call, its arguments and outcome
    \* ---- StreamSlice (sources/types.py)
    slice,                    \* the StreamSlice last constructed, if any
    sop,                      \* the last operation on slices and its outcome
    acc,                      \* the accessor loop in progress, if any
    \* ---- SinglePartitionRouter
    router,                   \* the attributes of the router instance
    rop,                      \* the last router call, its arguments and outcome
    \* ---- ConstantBackoffStrategy
    backoff_time_in_seconds,  \* the strategy's attribute after __post_init__
    backoff_call,             \* the last backoff_time call, its arguments and outcome
    \* ---- two runs sharing the secret registry
    registered,               \* per run, the secrets the run has registered so far
    \* ---- connector builder entry points (get_limits, create_source, handle_request)
    invocation,               \* the entry point invoked and its arguments
    builder_call,             \* the direct call of get_limits or create_source made
    handled,                  \* the handle_request call in progress, and its outcome
    \* ---- a request against an API that throttles
    http,                     \* the request loop: its source, requests sent, position
    \* ---- the lazy CSV row generator (read_data)
    csv_gen,                  \* the generator: its file, its position, how it ended
    csv_dialects,             \* the dialects registered with the csv module
    \* ---- UnstructuredParser.parse_records
    parser,                   \* the record generator: its inputs, position, outcome
    attempts,                 \* the answers to the remote requests made, in order
    \* ---- secret discovery (get_secrets)
    discovery                 \* the get_secrets call: its arguments and its result

pagVars == <<kind, constructed, start_from_page, page_size, inject_on_first_request,
             page, stop_condition, initial_cursor, calls, op>>

secVars == <<SECRETS_FROM_CONFIG, text, filtered>>

readVars == <<limits, partitions, slices, slice_open, ran_out, logs,
              test_read_limit_reached, exc, pc>>

interpVars == <<ib_condition, mapping, context, last_eval>>

sliceVars == <<slice, sop, acc>>

routerVars == <<router, rop>>

coreVars == <<pagVars, secVars, readVars>>

backoffVars == <<backoff_time_in_seconds, backoff_call>>

runVars == <<registered>>

builderVars == <<invocation, builder_call, handled>>

requestVars == <<http>>

csvVars == <<csv_gen, csv_dialects>>

unstructuredVars == <<parser, attempts>>

discoveryVars == <<discovery>>

tailVars == <<csvVars, unstructuredVars, discoveryVars>>

lateVars == <<runVars, builderVars, requestVars, tailVars>>

extVars == <<backoffVars, lateVars>>

auxVars == <<interpVars, sliceVars, routerVars, extVars>>

vars == <<coreVars, auxVars>>

----------------------------------------------------------------------------
(* Bounds of the model *)

MaxStartPage == 1       \* start_from_page ranges over 0..MaxStartPage
MaxPageSize == 2        \* configured page sizes range over 0..MaxPageSize
MaxLastPageSize == 2    \* records of a fetched page range over 0..MaxLastPageSize
MaxCalls == 3           \* next_page_token calls of a PageIncrement between two resets
MaxCursorCalls == 2     \* next_page_token calls of a cursor strategy between two resets
MaxResetValue == 2      \* integers given to reset range over 0..MaxResetValue
MaxStrLen == 3          \* strings handed to filter_secrets have at most MaxStrLen characters
MaxSecrets == 2         \* the registry holds at most MaxSecrets entries
MaxLimit == 2           \* max_slices and max_pages_per_slice range over 1..MaxLimit
MaxRecordLimit == 3     \* max_records ranges over 1..MaxRecordLimit
MaxPartitions == 3      \* the partition router yields 0..MaxPartitions partitions
MaxEntries == 2         \* a stored mapping has at most MaxEntries entries
MaxAttempts == 3        \* backoff_time is called on attempts 1..MaxAttempts
MaxGivenLimit == 2      \* the largest limit a test-read configuration block gives
MaxStreams == 2         \* the most streams a manifest declares
MaxRetries == 2         \* the attempt ceiling of a regular sync allows 1..MaxRetries retries
MaxColumns == 2         \* a CSV header names 1..MaxColumns columns
MaxRows == 3            \* a CSV file holds at most MaxRows data rows
MaxNesting == 2         \* a constituent of a StreamSlice nests at most MaxNesting StreamSlices

----------------------------------------------------------------------------
(* Python values, tagged by type *)

None == [t |-> "none"]
PyBool(b) == [t |-> "bool", b |-> b]
PyInt(i) == [t |-> "int", i |-> i]
PyFloat(tenths) == [t |-> "float", f |-> tenths]
PyStr(s) == [t |-> "str", s |-> s]
PyList(n) == [t |-> "list", n |-> n]
PyDict(n) == [t |-> "dict", n |-> n]
PyTuple(n) == [t |-> "tuple", n |-> n]
PySet(n) == [t |-> "set", n |-> n]

IsCollection(v) == v.t \in {"list", "dict", "tuple", "set"}

\* bool(v): Python truthiness, as used by `if x`, `x and y`, `x or y`
PyTruthy(v) ==
    CASE v.t = "none" -> FALSE
      [] v.t = "bool" -> v.b
      [] v.t = "int" -> v.i # 0
      [] v.t = "float" -> v.f # 0
      [] v.t = "str" -> v.s # ""
      [] v.t = "object" -> TRUE
      [] OTHER -> v.n > 0

\* isinstance(v, int)
IsInt(v) == v.t = "int"

----------------------------------------------------------------------------
(* InterpolatedBoolean (interpolation/interpolated_boolean.py) *)

\* The strings of FALSE_VALUES
FALSE_STRINGS == {"False", "false", "{}", "[]", "()", "", "0", "0.0"}

\* `evaluated in FALSE_VALUES`: membership by Python equality, so 0 and 0.0
\* (equal to False) and every empty dict, list, tuple and set are members,
\* and None is not
InFalseValues(v) ==
    CASE v.t = "str" -> v.s \in FALSE_STRINGS
      [] v.t = "bool" -> ~v.b
      [] v.t = "int" -> v.i = 0
      [] v.t = "float" -> v.f = 0
      [] v.t = "none" -> FALSE
      [] OTHER -> v.n = 0

\* The outcome of the templating engine on one template and context: a value,
\* or a failure of the evaluation
Fail == [t |-> "fail"]

\* JinjaInterpolation.eval(template, config, default): the value the template
\* resolves to, or the default when the evaluation fails
JinjaEval(outcome, default) == IF outcome = Fail THEN default ELSE outcome

\* A default that is not a member of FALSE_VALUES
BooleanDefault_Truthy == PyStr("True")

\* InterpolatedBoolean._default
BooleanDefault == PyStr("False")

\* An InterpolatedBoolean object: its condition is a template string or,
\* when the manifest gave a literal, a bool
InterpolatedBoolean(condition) == [t |-> "object", condition |-> condition]

\* InterpolatedBoolean.eval, given the outcome the engine has on the condition
InterpolatedBoolean_eval(self, outcome) ==
    IF self.condition.t = "bool"
    THEN self.condition.b
    ELSE LET evaluated == JinjaEval(outcome, BooleanDefault)
         IN  IF InFalseValues(evaluated) THEN FALSE ELSE TRUE

----------------------------------------------------------------------------
(* PageIncrement (paginators/strategies/page_increment.py) *)

\* The page sizes a manifest can give: absent, an int, or a template string
\* together with the value InterpolatedString.eval(config) resolves it to
PageSizeArgs ==
    {None} \cup {PyInt(n) : n \in 0..MaxPageSize}
           \cup {[t |-> "template", evals |-> v] :
                    v \in {PyInt(n) : n \in 1..MaxPageSize} \cup {PyStr("ten")}}

\* __post_init__: the resolved _page_size, or "raise" for a template that does
\* not resolve to an int
PageIncrement_post_init(arg) ==
    IF IsInt(arg) \/ arg = None
    THEN [raised |-> FALSE, page_size |-> arg]
    ELSE IF ~IsInt(arg.evals)
         THEN [raised |-> TRUE, page_size |-> None]
         ELSE [raised |-> FALSE, page_size |-> arg.evals]

\* initial_token
PageIncrement_initial_token_Always(inject, p) == PyInt(p)

PageIncrement_initial_token(inject, p) == IF inject THEN PyInt(p) ELSE None

\* next_page_token(response, last_page_size, last_record): the new _page and
\* the returned token
PageIncrement_next_page_token_NoSizeStop(p, ps, last_page_size) ==
    IF last_page_size = 0
    THEN [page |-> p, ret |-> None]
    ELSE [page |-> p + 1, ret |-> PyInt(p + 1)]

PageIncrement_next_page_token_IncrementFirst(p, ps, last_page_size) ==
    IF (PyTruthy(ps) /\ last_page_size < ps.i) \/ last_page_size = 0
    THEN [page |-> p + 1, ret |-> None]
    ELSE [page |-> p + 1, ret |-> PyInt(p + 1)]

PageIncrement_next_page_token(p, ps, last_page_size) ==
    IF (PyTruthy(ps) /\ last_page_size < ps.i) \/ last_page_size = 0
    THEN [page |-> p, ret |-> None]
    ELSE [page |-> p + 1, ret |-> PyInt(p + 1)]

\* reset(reset_value): the new _page, or raised
PageIncrement_reset_Keep(p, start, reset_value) ==
    IF reset_value = None
    THEN [raised |-> FALSE, page |-> p]
    ELSE IF ~IsInt(reset_value)
         THEN [raised |-> TRUE, page |-> p]
         ELSE [raised |-> FALSE, page |-> reset_value.i]

PageIncrement_reset_Coerce(p, start, reset_value) ==
    IF reset_value = None
    THEN [raised |-> FALSE, page |-> start]
    ELSE IF ~IsInt(reset_value)
         THEN [raised |-> TRUE, page |-> start]
         ELSE [raised |-> FALSE, page |-> reset_value.i]

PageIncrement_reset(p, start, reset_value) ==
    IF reset_value = None
    THEN [raised |-> FALSE, page |-> start]
    ELSE IF ~IsInt(reset_value)
         THEN [raised |-> TRUE, page |-> p]
         ELSE [raised |-> FALSE, page |-> reset_value.i]

\* The values a caller may hand to reset
ResetValues ==
    {None} \cup {PyInt(k) : k \in 0..MaxResetValue} \cup {PyStr("next"), PyFloat(15)}

----------------------------------------------------------------------------
(* CursorPaginationStrategy (paginators/strategies/cursor_pagination_strategy.py) *)

\* The stop conditions a manifest can give: absent, a template string, or an
\* InterpolatedBoolean built by the caller
StopConditionArgs ==
    {None, PyStr(""), PyStr("{{ response.done }}"),
     InterpolatedBoolean(PyStr("{{ response.done }}")),
     InterpolatedBoolean(PyBool(TRUE)), InterpolatedBoolean(PyBool(FALSE))}

\* __post_init__: _stop_condition
CursorPaginationStrategy_post_init(arg) ==
    IF arg.t = "str" THEN InterpolatedBoolean(arg) ELSE arg

\* A response, seen through the two templates of the strategy: the outcome of
\* the engine on the stop condition and on the cursor expression
StopOutcomes == {Fail, PyBool(TRUE), PyBool(FALSE), PyStr("false"), PyStr("done")}
CursorOutcomes == {Fail, None, PyStr(""), PyStr("next"), PyInt(0), PyList(0)}
Responses == [stop : StopOutcomes, cursor : CursorOutcomes]

\* InterpolatedString.eval of the cursor expression: the engine's default is
\* None
InterpolatedString_eval(outcome) == JinjaEval(outcome, None)

\* next_page_token(response, last_page_size, last_record): the returned token
CursorPaginationStrategy_next_page_token_CursorFirst(sc, response) ==
    LET token == InterpolatedString_eval(response.cursor)
    IN  IF PyTruthy(token)
        THEN token
        ELSE None

CursorPaginationStrategy_next_page_token_RawToken(sc, response) ==
    IF PyTruthy(sc) /\ InterpolatedBoolean_eval(sc, response.stop)
    THEN None
    ELSE InterpolatedString_eval(response.cursor)

CursorPaginationStrategy_next_page_token(sc, response) ==
    IF PyTruthy(sc) /\ InterpolatedBoolean_eval(sc, response.stop)
    THEN None
    ELSE LET token == InterpolatedString_eval(response.cursor)
         IN  IF PyTruthy(token) THEN token ELSE None

\* reset(reset_value): the new _initial_cursor
CursorPaginationStrategy_reset_IntegersOnly(reset_value) ==
    IF reset_value = None \/ IsInt(reset_value) THEN reset_value ELSE None

CursorPaginationStrategy_reset(reset_value) == reset_value

\* initial_token
CursorPaginationStrategy_initial_token(cursor) == cursor

----------------------------------------------------------------------------
(* Secret registry (utils/airbyte_secrets_utils.py) *)

\* Strings are sequences of characters
Chars == {"a", "A", "b", "*"}

RECURSIVE StringsOfLen(_)
StringsOfLen(n) ==
    IF n = 0
    THEN {<<>>}
    ELSE {<<c>> \o s : c \in Chars, s \in StringsOfLen(n - 1)}

Strings == UNION {StringsOfLen(n) : n \in 0..MaxStrLen}

\* The mask token "****"
MASK == <<"*", "*", "*", "*">>

\* The values a run may register: an empty value, plain values, a value that
\* is a prefix of another, and values made of or ending in the mask character
SecretPool == {<<>>, <<"a">>, <<"a", "b">>, <<"b", "a">>, <<"b", "*">>, <<"*">>}

\* The lists update_secrets receives: no secret, one secret, or a secret and
\* a prefix of it in either order
UpdateLists ==
    {<<>>} \cup {<<x>> : x \in SecretPool}
           \cup {<<<<"a">>, <<"a", "b">>>>, <<<<"a", "b">>, <<"a">>>>}

\* str.replace(old, new) for a non-empty old: every non-overlapping occurrence,
\* leftmost first
\* str.replace that ignores case: the variant filter_secrets must not be
Lower(c) == IF c = "A" THEN "a" ELSE c

LowerStr(s) == [i \in 1..Len(s) |-> Lower(s[i])]

RECURSIVE str_replace_IgnoreCase(_, _, _)
str_replace_IgnoreCase(string, old, new) ==
    IF Len(string) < Len(old)
    THEN string
    ELSE IF LowerStr(SubSeq(string, 1, Len(old))) = LowerStr(old)
         THEN new \o str_replace_IgnoreCase(SubSeq(string, Len(old) + 1, Len(string)), old, new)
         ELSE <<Head(string)>> \o str_replace_IgnoreCase(Tail(string), old, new)

RECURSIVE str_replace_First(_, _, _)
str_replace_First(string, old, new) ==
    IF Len(string) < Len(old)
    THEN string
    ELSE IF SubSeq(string, 1, Len(old)) = old
         THEN new \o SubSeq(string, Len(old) + 1, Len(string))
         ELSE <<Head(string)>> \o str_replace_First(Tail(string), old, new)

RECURSIVE str_replace(_, _, _)
str_replace(string, old, new) ==
    IF Len(string) < Len(old)
    THEN string
    ELSE IF SubSeq(string, 1, Len(old)) = old
         THEN new \o str_replace(SubSeq(string, Len(old) + 1, Len(string)), old, new)
         ELSE <<Head(string)>> \o str_replace(Tail(string), old, new)

\* filter_secrets(string) against a registry: the registered secrets are
\* replaced one after the other, in registry order; empty values are skipped
RECURSIVE filter_secrets(_, _)
filter_secrets(string, registry) ==
    IF registry = <<>>
    THEN string
    ELSE LET secret == Head(registry)
         IN  filter_secrets(IF secret # <<>>
                            THEN str_replace(string, secret, MASK)
                            ELSE string,
                            Tail(registry))

\* update_secrets that extends the registry by the list it is given
update_secrets_Extend(registry, secrets) == registry \o secrets

\* update_secrets(secrets): the new registry
update_secrets(registry, secrets) == secrets

\* add_to_secrets(secret): the new registry
add_to_secrets(registry, secret) == Append(registry, secret)

NotCalled == [called |-> FALSE]

InitSecrets ==
    /\ SECRETS_FROM_CONFIG = <<>>
    /\ text \in Strings
    /\ filtered = NotCalled

SecretsIdle ==
    /\ SECRETS_FROM_CONFIG = <<>>
    /\ text = <<>>
    /\ filtered = NotCalled

UpdateSecrets ==
    /\ \E secrets \in UpdateLists :
          SECRETS_FROM_CONFIG' = update_secrets(SECRETS_FROM_CONFIG, secrets)
    /\ filtered' = NotCalled
    /\ UNCHANGED <<text, pagVars, readVars, auxVars>>

AddToSecrets ==
    /\ Len(SECRETS_FROM_CONFIG) < MaxSecrets
    /\ \E secret \in SecretPool :
          SECRETS_FROM_CONFIG' = add_to_secrets(SECRETS_FROM_CONFIG, secret)
    /\ filtered' = NotCalled
    /\ UNCHANGED <<text, pagVars, readVars, auxVars>>

FilterSecrets ==
    /\ filtered' = [called |-> TRUE,
                    result |-> filter_secrets(text, SECRETS_FROM_CONFIG)]
    /\ UNCHANGED <<SECRETS_FROM_CONFIG, text, pagVars, readVars, auxVars>>

----------------------------------------------------------------------------
(* Bounded test read (connector_builder: read_stream, TestReadLimits) *)

RECURSIVE SumSeq(_)
SumSeq(q) == IF q = <<>> THEN 0 ELSE Head(q) + SumSeq(Tail(q))

\* The records of a report, over all its partitions and pages
RecordCount(report_slices) ==
    SumSeq([i \in 1..Len(report_slices) |-> SumSeq(report_slices[i].pages)])

\* The pages of a report
PageCount(report_slices) ==
    SumSeq([i \in 1..Len(report_slices) |-> Len(report_slices[i].pages)])

Min(a, b) == IF a < b THEN a ELSE b

\* The default of max_records
DEFAULT_MAXIMUM_RECORDS == 100

\* The records a fetched page may hold: none, one, a full page of two
PageRecordCounts == {0, 1, 2}

\* TestReadLimits: three independent positive ceilings
TestReadLimits ==
    [max_records : (1..MaxRecordLimit) \cup {DEFAULT_MAXIMUM_RECORDS},
     max_slices : 1..MaxLimit,
     max_pages_per_slice : 1..MaxLimit]

\* The secrets registered (update_secrets) before the read starts
RunSecrets == {<<>>, <<<<"a", "b">>>>, <<<<"b">>, <<"*">>>>}

\* The texts of the exceptions the underlying read may raise
ExceptionTexts == {<<"b">>, <<"a", "b", "A", "a", "b">>, <<"b", "*">>}

\* traceback formatting: the trace ends with the exception text
FormatTrace(exception_text) == <<"T", ":">> \o exception_text

NoException == [raised |-> FALSE]

\* The slice ceiling of the test-read decorator: how many partitions are read
SlicesToRead_OneMore(lim, parts) == Min(lim.max_slices + 1, parts)

SlicesToRead(lim, parts) == Min(lim.max_slices, parts)

\* The page ceiling of the test-read decorator: pagination of a partition
\* goes on after a page while the paginator has a next token and the
\* partition holds fewer than max_pages_per_slice pages
PaginationGoesOn(lim, pages, has_next) ==
    has_next /\ Len(pages) < lim.max_pages_per_slice

\* The record ceiling, checked after each page
RecordLimitReached_Above(lim, report_slices) ==
    RecordCount(report_slices) > lim.max_records

RecordLimitReached(lim, report_slices) ==
    RecordCount(report_slices) >= lim.max_records

\* A report that puts the page that came in before the pages it holds
WithPage_Front(report_slices, open, n) ==
    IF open
    THEN [report_slices EXCEPT ![Len(report_slices)].pages = <<n>> \o @]
    ELSE <<[partition |-> Len(report_slices) + 1, pages |-> <<n>>]>> \o report_slices

\* The report's slices after a page of n records came in
WithPage(report_slices, open, n) ==
    IF open
    THEN [report_slices EXCEPT ![Len(report_slices)].pages = Append(@, n)]
    ELSE Append(report_slices,
                [partition |-> Len(report_slices) + 1, pages |-> <<n>>])

\* read_stream's handling of an exception of the underlying read: it is
\* caught and becomes an ERROR log entry with redacted message and trace
ErrorLogMessage(exception_text, registry) ==
    [message |-> filter_secrets(exception_text, registry),
     level |-> "ERROR",
     stacktrace |-> filter_secrets(FormatTrace(exception_text), registry)]

read_stream_on_exception_Propagate(exception_text, registry) ==
    [pc |-> "raised", log |-> ErrorLogMessage(exception_text, registry)]

read_stream_on_exception(exception_text, registry) ==
    [pc |-> "returned", log |-> ErrorLogMessage(exception_text, registry)]

ReadIdle ==
    /\ limits = [max_records |-> 1, max_slices |-> 1, max_pages_per_slice |-> 1]
    /\ partitions = 0
    /\ slices = <<>>
    /\ slice_open = FALSE
    /\ ran_out = FALSE
    /\ logs = <<>>
    /\ test_read_limit_reached = FALSE
    /\ exc = NoException
    /\ pc = "idle"

InitRead ==
    /\ limits \in TestReadLimits
    /\ partitions \in 0..MaxPartitions
    /\ slices = <<>>
    /\ slice_open = FALSE
    /\ ran_out = FALSE
    /\ logs = <<>>
    /\ test_read_limit_reached = FALSE
    /\ exc = NoException
    /\ pc = "reading"
    /\ SECRETS_FROM_CONFIG \in RunSecrets
    /\ text = <<>>
    /\ filtered = NotCalled

\* One page fetch: the next page of the open partition, or the first page of
\* the next partition; the ceilings are applied when the page has come in
FetchPage ==
    /\ pc = "reading"
    /\ slice_open \/ Len(slices) < SlicesToRead(limits, partitions)
    /\ \E n \in PageRecordCounts, has_next \in BOOLEAN :
          LET report_slices == WithPage(slices, slice_open, n)
              pages == report_slices[Len(report_slices)].pages
          IN  /\ slices' = report_slices
              /\ IF RecordLimitReached(limits, report_slices)
                 THEN /\ test_read_limit_reached' = TRUE
                      /\ slice_open' = FALSE
                      /\ ran_out' = ran_out
                      /\ pc' = "returned"
                 ELSE /\ test_read_limit_reached' = FALSE
                      /\ slice_open' = PaginationGoesOn(limits, pages, has_next)
                      /\ ran_out' = (ran_out \/ (~has_next /\
                                        Len(pages) < limits.max_pages_per_slice))
                      /\ pc' = "reading"
    /\ UNCHANGED <<limits, partitions, logs, exc, secVars, pagVars, auxVars>>

\* The walk ends: every partition within the slice ceiling was read
FinishRead ==
    /\ pc = "reading"
    /\ ~slice_open
    /\ Len(slices) >= SlicesToRead(limits, partitions)
    /\ pc' = "returned"
    /\ UNCHANGED <<limits, partitions, slices, slice_open, ran_out, logs,
                   test_read_limit_reached, exc, secVars, pagVars, auxVars>>

\* The underlying read raises, before or instead of a page coming in
ReadRaises ==
    /\ pc = "reading"
    /\ \E exception_text \in ExceptionTexts :
          LET r == read_stream_on_exception(exception_text, SECRETS_FROM_CONFIG)
          IN  /\ exc' = [raised |-> TRUE, text |-> exception_text]
              /\ logs' = Append(logs, r.log)
              /\ pc' = r.pc
    /\ slice_open' = FALSE
    /\ UNCHANGED <<limits, partitions, slices, ran_out, test_read_limit_reached,
                   secVars, pagVars, auxVars>>

NextRead ==
    \/ FetchPage
    \/ FinishRead
    \/ ReadRaises

----------------------------------------------------------------------------
(* Interpolation: the engine, InterpolatedBoolean and InterpolatedMapping   *)
(* as a state machine (interpolation/interpolated_boolean.py,              *)
(* interpolation/interpolated_mapping.py)                                  *)

\* The template strings of the manifests; every other string is a literal
Templates == {"{{ a }}", "{{ b }}"}

\* What the engine resolves a string to under a context: a literal string is
\* itself, a template is whatever the context makes of it (a value, or a
\* failure of the evaluation)
Resolve(input_str, ctx) ==
    IF input_str \in Templates THEN ctx[input_str] ELSE PyStr(input_str)

\* The outcome of a call that raised a TypeError
TypeError == [t |-> "TypeError"]

\* No valid_types given (None): the result is not validated
Unchecked == {}

\* JinjaInterpolation.eval(input_str, config, default, valid_types): the
\* resolved value, the default when the evaluation fails, and a TypeError
\* when the caller gave valid_types and the value is of none of them
JinjaInterpolation_eval(input_str, ctx, default, valid_types) ==
    LET value == JinjaEval(Resolve(input_str, ctx), default)
    IN  IF valid_types # Unchecked /\ value.t \notin valid_types
        THEN TypeError
        ELSE value

\* The conditions an InterpolatedBoolean is built on: a template, literal
\* strings, or a bool
ConditionArgs ==
    {PyStr("{{ a }}"), PyStr("False"), PyStr("abc"), PyBool(TRUE), PyBool(FALSE)}

\* What a boolean template can resolve to
BooleanOutcomes ==
    {Fail, None, PyBool(TRUE), PyBool(FALSE),
     PyStr(""), PyStr("0"), PyStr("0.0"), PyStr("{}"), PyStr("[]"), PyStr("()"),
     PyStr("false"), PyStr("False"), PyStr("true"), PyStr("abc"),
     PyInt(0), PyInt(1), PyFloat(0), PyFloat(15),
     PyList(0), PyList(1), PyDict(0), PyDict(1), PyTuple(0), PySet(0)}

\* The keys and values of the stored mappings, and what their templates can
\* resolve to
MappingNames == {"k", "{{ a }}", "{{ b }}"}
MappingValues == {PyStr("v"), PyStr("{{ a }}"), PyInt(1), None}
MappingOutcomes == {Fail, PyStr("k"), PyStr("x"), PyInt(7)}

\* The stored mappings: at most n entries, in insertion order, with distinct
\* keys
RECURSIVE MappingsOfLen(_)
MappingsOfLen(n) ==
    IF n = 0
    THEN {<<>>}
    ELSE {Append(m, [name |-> k, value |-> v]) :
              m \in {x \in MappingsOfLen(n - 1) : Len(x) = n - 1},
              k \in MappingNames, v \in MappingValues}

HasDistinctNames(m) ==
    \A i, j \in 1..Len(m) : m[i].name = m[j].name => i = j

Mappings ==
    {m \in UNION {MappingsOfLen(n) : n \in 0..MaxEntries} : HasDistinctNames(m)}

\* valid_key_types and valid_value_types of a call: the defaults (str,) and
\* None, or the caller's own
KeyTypeArgs == {{"str"}, {"str", "int"}}
ValueTypeArgs == {Unchecked, {"str"}}

\* d[key] = value on a dict kept as its items in insertion order
DictSet(d, key, value) ==
    IF \E i \in 1..Len(d) : d[i].key = key
    THEN [i \in 1..Len(d) |->
              IF d[i].key = key THEN [key |-> key, value |-> value] ELSE d[i]]
    ELSE Append(d, [key |-> key, value |-> value])

\* InterpolatedMapping._eval
InterpolatedMapping__eval_All(value, ctx, valid_types) ==
    IF value.t = "str"
    THEN JinjaInterpolation_eval(value.s, ctx, None, valid_types)
    ELSE None

InterpolatedMapping__eval(value, ctx, valid_types) ==
    IF value.t = "str"
    THEN JinjaInterpolation_eval(value.s, ctx, None, valid_types)
    ELSE value

\* The dict comprehension of InterpolatedMapping.eval over the items from
\* the i-th on, d being the dict built so far
RECURSIVE Comprehension(_, _, _, _, _, _)
Comprehension(m, i, ctx, valid_key_types, valid_value_types, d) ==
    IF i > Len(m)
    THEN [raised |-> FALSE, result |-> d]
    ELSE LET key == JinjaInterpolation_eval(m[i].name, ctx, None, valid_key_types)
             value == InterpolatedMapping__eval(m[i].value, ctx, valid_value_types)
         IN  IF key = TypeError \/ value = TypeError
             THEN [raised |-> TRUE]
             ELSE Comprehension(m, i + 1, ctx, valid_key_types, valid_value_types,
                                DictSet(d, key, value))

\* InterpolatedMapping.eval
InterpolatedMapping_eval(m, ctx, valid_key_types, valid_value_types) ==
    Comprehension(m, 1, ctx, valid_key_types, valid_value_types, <<>>)

InterpIdle ==
    /\ ib_condition = PyBool(FALSE)
    /\ mapping = <<>>
    /\ context = [t \in Templates |-> Fail]
    /\ last_eval = [name |-> "idle"]

\* An InterpolatedBoolean and the context of its evaluations
InitBoolean ==
    /\ ib_condition \in ConditionArgs
    /\ mapping = <<>>
    /\ \E o \in BooleanOutcomes :
          context = [t \in Templates |-> IF t = "{{ a }}" THEN o ELSE Fail]
    /\ last_eval = [name |-> "init"]

\* An InterpolatedMapping and the context of its evaluations
InitMapping ==
    /\ ib_condition = PyBool(FALSE)
    /\ mapping \in Mappings
    /\ mapping # <<>>
    /\ context \in [Templates -> MappingOutcomes]
    /\ last_eval = [name |-> "init"]

\* InterpolatedBoolean(condition).eval(config)
EvalBoolean ==
    /\ mapping = <<>>
    /\ LET outcome == IF ib_condition.t = "str"
                      THEN Resolve(ib_condition.s, context)
                      ELSE ib_condition
       IN  last_eval' =
               [name |-> "InterpolatedBoolean.eval",
                outcome |-> outcome,
                result |-> InterpolatedBoolean_eval(InterpolatedBoolean(ib_condition),
                                                    outcome)]
    /\ UNCHANGED <<ib_condition, mapping, context, coreVars, extVars, sliceVars,
                   routerVars>>

\* InterpolatedMapping(mapping).eval(config, valid_key_types, valid_value_types)
EvalMapping ==
    /\ mapping # <<>>
    /\ \E kt \in KeyTypeArgs, vt \in ValueTypeArgs :
          last_eval' =
              [name |-> "InterpolatedMapping.eval",
               valid_key_types |-> kt,
               valid_value_types |-> vt,
               ret |-> InterpolatedMapping_eval(mapping, context, kt, vt)]
    /\ UNCHANGED <<ib_condition, mapping, context, coreVars, extVars, sliceVars,
                   routerVars>>

NextInterpolation ==
    \/ EvalBoolean
    \/ EvalMapping

----------------------------------------------------------------------------
(* StreamSlice (sources/types.py)                                          *)

\* A plain mapping (dict), by its items
PlainDict(f) == [t |-> "dict", items |-> f]

EmptyItems == [k \in {} |-> 0]

\* The plain mappings handed to the constructor
PlainDicts ==
    {PlainDict(f) : f \in {EmptyItems, [a |-> 1], [b |-> 1]}}

\* The extra_fields arguments: absent, or one field
ExtraArgs == {None, PlainDict([m |-> 1])}

IsStreamSlice(v) == v.t = "StreamSlice"

\* The items a value shows through the Mapping interface (keys, items,
\* __getitem__): a dict's own, a StreamSlice's _stream_slice
MappingView(v) == IF IsStreamSlice(v) THEN v.stream_slice ELSE v.items

MappingKeys(v) == DOMAIN MappingView(v)

\* dict(p) | dict(c)
DictUnion(p, c) ==
    [k \in (DOMAIN p) \cup (DOMAIN c) |-> IF k \in DOMAIN c THEN c[k] ELSE p[k]]

\* StreamSlice.__init__(partition, cursor_slice, extra_fields)
StreamSlice_init_Unchecked(partition, cursor_slice, extra_fields) ==
    [raised |-> FALSE,
     slice |-> [t |-> "StreamSlice",
                partition |-> partition,
                cursor_slice |-> cursor_slice,
                extra_fields |-> IF extra_fields = None
                                 THEN PlainDict(EmptyItems)
                                 ELSE extra_fields,
                stream_slice |-> DictUnion(MappingView(partition),
                                           MappingView(cursor_slice))]]

StreamSlice_init(partition, cursor_slice, extra_fields) ==
    IF MappingKeys(partition) \cap MappingKeys(cursor_slice) # {}
    THEN [raised |-> TRUE]
    ELSE [raised |-> FALSE,
          slice |-> [t |-> "StreamSlice",
                     partition |-> partition,
                     cursor_slice |-> cursor_slice,
                     extra_fields |-> IF extra_fields = None
                                      THEN PlainDict(EmptyItems)
                                      ELSE extra_fields,
                     stream_slice |-> DictUnion(MappingView(partition),
                                                MappingView(cursor_slice))]]

\* The partition and cursor_slice properties: the stored value, unwrapped
\* while it is a StreamSlice
RECURSIVE StreamSlice_partition(_)
StreamSlice_partition(self) ==
    IF IsStreamSlice(self.partition)
    THEN StreamSlice_partition(self.partition)
    ELSE self.partition

RECURSIVE StreamSlice_cursor_slice(_)
StreamSlice_cursor_slice(self) ==
    IF IsStreamSlice(self.cursor_slice)
    THEN StreamSlice_cursor_slice(self.cursor_slice)
    ELSE self.cursor_slice

\* The extra_fields property
StreamSlice_extra_fields(self) == self.extra_fields

\* StreamSlice.__eq__(other), and a == b on the stored constituents: a dict
\* compared with a StreamSlice defers to the StreamSlice's __eq__
RECURSIVE StreamSlice_eq(_, _)
RECURSIVE PyEq(_, _)
PyEq(a, b) ==
    IF IsStreamSlice(a)
    THEN StreamSlice_eq(a, b)
    ELSE IF IsStreamSlice(b)
         THEN StreamSlice_eq(b, a)
         ELSE a.items = b.items

\* An __eq__ that looks at the partitions only
StreamSlice_eq_PartitionOnly(self, other) ==
    IF other.t = "dict"
    THEN MappingView(self.partition) = other.items
    ELSE IF IsStreamSlice(other)
         THEN PyEq(self.partition, other.partition)
         ELSE FALSE

StreamSlice_eq(self, other) ==
    IF other.t = "dict"
    THEN self.stream_slice = other.items
    ELSE IF IsStreamSlice(other)
         THEN PyEq(self.partition, other.partition)
              /\ PyEq(self.cursor_slice, other.cursor_slice)
         ELSE FALSE

\* StreamSlice.__setitem__(key, value): the outcome and the slice afterwards
StreamSlice_setitem_Store(self, key, value) ==
    [raised |-> FALSE,
     slice |-> [self EXCEPT !.stream_slice =
                    DictUnion(self.stream_slice, [k \in {key} |-> value])]]

StreamSlice_setitem(self, key, value) == [raised |-> TRUE, slice |-> self]

\* How deep StreamSlices are nested in a value
RECURSIVE NestingOf(_)
NestingOf(v) ==
    IF IsStreamSlice(v)
    THEN LET p == NestingOf(v.partition)
             c == NestingOf(v.cursor_slice)
         IN  1 + (IF p > c THEN p ELSE c)
    ELSE 0

\* The stored constituent an accessor starts from
Field(self, which) ==
    IF which = "partition" THEN self.partition ELSE self.cursor_slice

\* One step of a running accessor, on the stack of its nested calls: the
\* loop test of the innermost call, which either calls the accessor of the
\* StreamSlice it holds or returns the mapping it holds to its caller
StreamSlice_accessor_step_NoLoop(stack, which) ==
    LET top == stack[Len(stack)]
    IN  IF Len(stack) = 1
        THEN [done |-> TRUE, ret |-> top.p]
        ELSE [done |-> FALSE,
              stack |-> [SubSeq(stack, 1, Len(stack) - 1)
                             EXCEPT ![Len(stack) - 1].p = top.p]]

StreamSlice_accessor_step(stack, which) ==
    LET top == stack[Len(stack)]
    IN  IF IsStreamSlice(top.p)
        THEN [done |-> FALSE,
              stack |-> Append(stack, [self |-> top.p, p |-> Field(top.p, which)])]
        ELSE IF Len(stack) = 1
             THEN [done |-> TRUE, ret |-> top.p]
             ELSE [done |-> FALSE,
                   stack |-> [SubSeq(stack, 1, Len(stack) - 1)
                                  EXCEPT ![Len(stack) - 1].p = top.p]]

\* The slices built on plain mappings
PlainSlices ==
    {StreamSlice_init(x[1], x[2], x[3]).slice :
        x \in {y \in PlainDicts \X PlainDicts \X {None} :
                   ~StreamSlice_init(y[1], y[2], y[3]).raised}}

\* The values a slice is compared with: the slices built on plain mappings
\* without extra fields, the slice with other extra fields, the slices built
\* on what its accessors and its constituents' mapping views return, a slice
\* with another value under a key, its own mapping view as a dict, and a
\* value that is no mapping
Others(self) ==
    PlainSlices
    \cup {[self EXCEPT !.extra_fields = PlainDict([m |-> 1])],
          [self EXCEPT !.extra_fields = PlainDict(EmptyItems)]}
    \cup {StreamSlice_init(StreamSlice_partition(self),
                           StreamSlice_cursor_slice(self), None).slice,
          StreamSlice_init(PlainDict(MappingView(self.partition)),
                           PlainDict(MappingView(self.cursor_slice)), None).slice}
    \cup {StreamSlice_init(PlainDict([a |-> 2]), PlainDict(EmptyItems), None).slice,
          PlainDict(self.stream_slice), None}

\* StreamSlice(partition=..., cursor_slice=..., extra_fields=...), on plain
\* mappings or on the slice constructed before
Construct ==
    /\ acc.pc # "run"
    /\ \E partition \in PlainDicts \cup ({slice} \ {None}),
          cursor_slice \in PlainDicts \cup ({slice} \ {None}),
          extra_fields \in ExtraArgs :
          /\ NestingOf(partition) <= MaxNesting
          /\ NestingOf(cursor_slice) <= MaxNesting
          /\ LET r == StreamSlice_init(partition, cursor_slice, extra_fields)
             IN  /\ slice' = IF r.raised THEN slice ELSE r.slice
                 /\ sop' = [name |-> "init", partition |-> partition,
                            cursor_slice |-> cursor_slice, raised |-> r.raised]
    /\ acc' = [pc |-> "idle"]
    /\ UNCHANGED <<coreVars, extVars, interpVars, routerVars>>

\* slice[key] = value
SetItem ==
    /\ acc.pc # "run"
    /\ slice # None
    /\ \E key \in {"a", "z"}, value \in {1, 3} :
          LET r == StreamSlice_setitem(slice, key, value)
          IN  /\ slice' = r.slice
              /\ sop' = [name |-> "setitem", key |-> key, raised |-> r.raised]
    /\ acc' = [pc |-> "idle"]
    /\ UNCHANGED <<coreVars, extVars, interpVars, routerVars>>

\* slice == other
Compare ==
    /\ acc.pc # "run"
    /\ slice # None
    /\ \E other \in Others(slice) :
          sop' = [name |-> "eq", other |-> other,
                  result |-> StreamSlice_eq(slice, other)]
    /\ acc' = [pc |-> "idle"]
    /\ UNCHANGED <<slice, coreVars, extVars, interpVars, routerVars>>

\* slice.partition or slice.cursor_slice is read: the accessor is entered
AccessorEnter ==
    /\ acc.pc # "run"
    /\ slice # None
    /\ \E which \in {"partition", "cursor_slice"} :
          acc' = [pc |-> "run", which |-> which, steps |-> 0,
                  stack |-> <<[self |-> slice, p |-> Field(slice, which)]>>]
    /\ sop' = [name |-> "accessor"]
    /\ UNCHANGED <<slice, coreVars, extVars, interpVars, routerVars>>

\* The running accessor takes a step
AccessorStep ==
    /\ acc.pc = "run"
    /\ LET r == StreamSlice_accessor_step(acc.stack, acc.which)
       IN  acc' = IF r.done
                  THEN [pc |-> "done", which |-> acc.which,
                        steps |-> acc.steps + 1, ret |-> r.ret]
                  ELSE [acc EXCEPT !.stack = r.stack, !.steps = acc.steps + 1]
    /\ UNCHANGED <<slice, sop, coreVars, extVars, interpVars, routerVars>>

NextSlices ==
    \/ Construct
    \/ SetItem
    \/ Compare
    \/ AccessorEnter
    \/ AccessorStep

----------------------------------------------------------------------------
(* SinglePartitionRouter (partition_routers/single_partition_router.py)    *)

\* The four request-contribution methods
RequestMethods ==
    {"get_request_params", "get_request_headers", "get_request_body_data",
     "get_request_body_json"}

\* The arguments of the calls: stream states, slices and page tokens
StreamStateArgs == {None, PlainDict(EmptyItems), PlainDict([cursor |-> 1])}
StreamSliceArgs ==
    {None,
     StreamSlice_init(PlainDict(EmptyItems), PlainDict(EmptyItems), None).slice,
     StreamSlice_init(PlainDict([a |-> 1]), PlainDict([b |-> 1]), None).slice}
PageTokenArgs ==
    {None, PlainDict([next_page_token |-> 2]), PlainDict([next_page_token |-> 3])}

\* get_request_params, get_request_headers, get_request_body_data and
\* get_request_body_json
SinglePartitionRouter_get_request(method, stream_state, stream_slice, next_page_token) ==
    PlainDict(EmptyItems)

\* stream_slices(): the slices the generator yields, in order
SinglePartitionRouter_stream_slices ==
    <<StreamSlice_init(PlainDict(EmptyItems), PlainDict(EmptyItems), None).slice>>

\* set_initial_state(stream_state): the attributes of the router afterwards
SinglePartitionRouter_set_initial_state_Store(self, stream_state) ==
    DictUnion(self, [k \in {"_state"} |-> stream_state])

SinglePartitionRouter_set_initial_state(self, stream_state) == self

\* get_stream_state()
SinglePartitionRouter_get_stream_state(self) == None

\* A router was constructed: it has no attribute
InitRouter ==
    /\ router = EmptyItems
    /\ rop = [name |-> "init"]

R_GetRequest ==
    /\ \E method \in RequestMethods, stream_state \in StreamStateArgs,
          stream_slice \in StreamSliceArgs, next_page_token \in PageTokenArgs :
          rop' = [name |-> method, stream_state |-> stream_state,
                  stream_slice |-> stream_slice,
                  next_page_token |-> next_page_token,
                  ret |-> SinglePartitionRouter_get_request(
                              method, stream_state, stream_slice, next_page_token)]
    /\ UNCHANGED <<router, coreVars, extVars, interpVars, sliceVars>>

R_StreamSlices ==
    /\ rop' = [name |-> "stream_slices", after |-> rop.name,
               ret |-> SinglePartitionRouter_stream_slices]
    /\ UNCHANGED <<router, coreVars, extVars, interpVars, sliceVars>>

R_SetInitialState ==
    /\ \E stream_state \in StreamStateArgs :
          /\ router' = SinglePartitionRouter_set_initial_state(router, stream_state)
          /\ rop' = [name |-> "set_initial_state", stream_state |-> stream_state]
    /\ UNCHANGED <<coreVars, extVars, interpVars, sliceVars>>

R_GetStreamState ==
    /\ rop' = [name |-> "get_stream_state", after |-> rop.name,
               ret |-> SinglePartitionRouter_get_stream_state(router)]
    /\ UNCHANGED <<router, coreVars, extVars, interpVars, sliceVars>>

NextRouter ==
    \/ R_GetRequest
    \/ R_StreamSlices
    \/ R_SetInitialState
    \/ R_GetStreamState

----------------------------------------------------------------------------
(* ConstantBackoffStrategy (error_handlers/backoff_strategies/              *)
(* constant_backoff_strategy.py)                                           *)

\* An InterpolatedString object on a string
InterpolatedString(string) == [t |-> "InterpolatedString", string |-> string]

\* The backoff_time_in_seconds a manifest gives: a float, an int, a literal
\* or template string, or an InterpolatedString
BackoffArgs ==
    {PyFloat(50), PyInt(3), PyStr("7"), PyStr("{{ a }}"),
     InterpolatedString("{{ b }}")}

\* str(x) of the values a manifest gives
PyToStr(x) ==
    CASE x = PyFloat(50) -> "5.0"
      [] x = PyInt(3) -> "3"
      [] OTHER -> x.s

\* __post_init__: backoff_time_in_seconds afterwards
ConstantBackoffStrategy_post_init(arg) ==
    LET as_str == IF arg.t # "InterpolatedString" THEN PyStr(PyToStr(arg)) ELSE arg
    IN  IF as_str.t = "float"
        THEN InterpolatedString(PyToStr(as_str))
        ELSE IF as_str.t = "InterpolatedString"
             THEN as_str
             ELSE InterpolatedString(as_str.s)

\* What the templates of a duration resolve to under a Config
BackoffOutcomes == {Fail, PyInt(5), PyFloat(25), PyStr("10")}

\* The outcomes backoff_time is called on: a response, a transport exception
\* or nothing
ResponseOrExceptionArgs ==
    {None, [t |-> "Response", status_code |-> 429],
     [t |-> "Response", status_code |-> 500], [t |-> "RequestException"]}

\* backoff_time(response_or_exception, attempt_count)
ConstantBackoffStrategy_backoff_time_Growing(self, config, response_or_exception, attempt_count) ==
    PyInt(attempt_count)

ConstantBackoffStrategy_backoff_time(self, config, response_or_exception, attempt_count) ==
    InterpolatedString_eval(Resolve(self.string, config))

BackoffIdle ==
    /\ backoff_time_in_seconds = None
    /\ backoff_call = [name |-> "idle"]

\* A strategy constructed on a manifest value and a Config
InitBackoff ==
    /\ \E arg \in BackoffArgs :
          backoff_time_in_seconds = ConstantBackoffStrategy_post_init(arg)
    /\ backoff_call = [name |-> "init"]
    /\ ib_condition = PyBool(FALSE)
    /\ mapping = <<>>
    /\ context \in [Templates -> BackoffOutcomes]
    /\ last_eval = [name |-> "idle"]

BackoffTime ==
    /\ \E response_or_exception \in ResponseOrExceptionArgs,
          attempt_count \in 1..MaxAttempts :
          backoff_call' =
              [name |-> "backoff_time",
               response_or_exception |-> response_or_exception,
               attempt_count |-> attempt_count,
               ret |-> ConstantBackoffStrategy_backoff_time(
                           backoff_time_in_seconds, context,
                           response_or_exception, attempt_count)]
    /\ UNCHANGED <<backoff_time_in_seconds, coreVars, interpVars, sliceVars,
                   routerVars, lateVars>>

NextBackoff == BackoffTime

----------------------------------------------------------------------------
(* Two runs of one process sharing the secret registry                     *)
(* (utils/airbyte_secrets_utils.py: the registry is one module global)     *)

\* The runs of the process
Runs == {1, 2}

\* The secrets a run registers, and the lists it hands to update_secrets
RunSecretPool == {<<"a">>, <<"b">>, <<"a", "b">>}

RunUpdateLists == {<<>>} \cup {<<secret>> : secret \in RunSecretPool}

\* The texts a run renders
RunTexts == {<<"a">>, <<"b", "a">>, <<"a", "b">>}

RunsIdle == registered = [run \in Runs |-> {}]

\* A process in which no run has registered anything yet
InitRuns ==
    /\ SECRETS_FROM_CONFIG = <<>>
    /\ text = <<>>
    /\ filtered = NotCalled
    /\ registered = [run \in Runs |-> {}]

\* A run calls update_secrets(secrets)
Run_UpdateSecrets(run) ==
    /\ \E secrets \in RunUpdateLists :
          /\ SECRETS_FROM_CONFIG' = update_secrets(SECRETS_FROM_CONFIG, secrets)
          /\ registered' =
                [registered EXCEPT ![run] =
                    @ \cup {secrets[i] : i \in 1..Len(secrets)}]
    /\ filtered' = NotCalled
    /\ UNCHANGED <<text, pagVars, readVars, interpVars, sliceVars, routerVars,
                   backoffVars, builderVars, requestVars, tailVars>>

\* A run calls add_to_secrets(secret)
Run_AddToSecrets(run) ==
    /\ Len(SECRETS_FROM_CONFIG) < MaxSecrets
    /\ \E secret \in RunSecretPool :
          /\ SECRETS_FROM_CONFIG' = add_to_secrets(SECRETS_FROM_CONFIG, secret)
          /\ registered' = [registered EXCEPT ![run] = @ \cup {secret}]
    /\ filtered' = NotCalled
    /\ UNCHANGED <<text, pagVars, readVars, interpVars, sliceVars, routerVars,
                   backoffVars, builderVars, requestVars, tailVars>>

\* A run renders a text through filter_secrets
Run_FilterSecrets(run) ==
    /\ \E string \in RunTexts :
          /\ text' = string
          /\ filtered' = [called |-> TRUE, by |-> run,
                          result |-> filter_secrets(string, SECRETS_FROM_CONFIG)]
    /\ UNCHANGED <<SECRETS_FROM_CONFIG, registered, pagVars, readVars, interpVars,
                   sliceVars, routerVars, backoffVars, builderVars, requestVars, tailVars>>

NextRuns ==
    \E run \in Runs :
        \/ Run_UpdateSecrets(run)
        \/ Run_AddToSecrets(run)
        \/ Run_FilterSecrets(run)

----------------------------------------------------------------------------
(* The connector builder entry points: limit resolution, source creation,  *)
(* request handling (connector_builder_handler, connector_builder.main)    *)

DEFAULT_MAXIMUM_NUMBER_OF_SLICES == 5

DEFAULT_MAXIMUM_NUMBER_OF_PAGES_PER_SLICE == 5

\* The options of the test-read configuration block
LimitKeys == {"max_records", "max_slices", "max_pages_per_slice"}

\* The default of each option
DefaultLimit(key) ==
    CASE key = "max_records" -> DEFAULT_MAXIMUM_RECORDS
      [] key = "max_slices" -> DEFAULT_MAXIMUM_NUMBER_OF_SLICES
      [] key = "max_pages_per_slice" -> DEFAULT_MAXIMUM_NUMBER_OF_PAGES_PER_SLICE

\* The values a block gives to an option; zero is not a ceiling
GivenValues == 0..MaxGivenLimit

\* The test-read configuration block of a config: absent, or a mapping that
\* gives some of the options
TestReadConfigs ==
    {None} \cup
    {PlainDict(f) : f \in UNION {[keys -> GivenValues] : keys \in SUBSET LimitKeys}}

\* The builder commands a config names
BuilderCommands == {"test_read", "resolve_manifest", "bad_command"}

\* The configs handed to the entry points
BuilderConfigs ==
    [command : BuilderCommands,
     test_read_config : TestReadConfigs,
     streams : 1..MaxStreams]

ValueError == [t |-> "ValueError"]

SystemExit == [t |-> "SystemExit"]

\* get_limits that overrides by position: the variant that mixes the options up
get_limits_Swapped(config) ==
    LET block == config.test_read_config
        given(key) == IF block # None /\ key \in DOMAIN block.items
                      THEN block.items[key]
                      ELSE DefaultLimit(key)
    IN  [max_records |-> given("max_records"),
         max_slices |-> given("max_pages_per_slice"),
         max_pages_per_slice |-> given("max_slices")]

\* get_limits(config): a missing block or option gives the default, a given
\* non-positive value is rejected
get_limits(config) ==
    LET block == config.test_read_config
        given(key) == IF block # None /\ key \in DOMAIN block.items
                      THEN block.items[key]
                      ELSE DefaultLimit(key)
    IN  IF \E key \in LimitKeys : given(key) <= 0
        THEN ValueError
        ELSE [max_records |-> given("max_records"),
              max_slices |-> given("max_slices"),
              max_pages_per_slice |-> given("max_pages_per_slice")]

\* create_source that takes the ceilings by position, slices before pages
create_source_Swapped(config, given_limits) ==
    [t |-> "ManifestDeclarativeSource",
     limit_pages_fetched_per_slice |-> given_limits.max_slices,
     limit_slices_fetched |-> given_limits.max_pages_per_slice,
     disable_cache |-> TRUE,
     disable_retries |-> TRUE,
     streams |-> [i \in 1..config.streams |->
                    [retriever |-> "SimpleRetrieverTestReadDecorator"]]]

\* create_source without the test-read settings: the variant of a regular sync
create_source_Regular(config, given_limits) ==
    [t |-> "ManifestDeclarativeSource",
     limit_pages_fetched_per_slice |-> None,
     limit_slices_fetched |-> None,
     disable_cache |-> FALSE,
     disable_retries |-> FALSE,
     streams |-> [i \in 1..config.streams |-> [retriever |-> "SimpleRetriever"]]]

\* create_source(config, limits): the source of the injected manifest, built
\* with the ceilings of the limits, without cache and without retries; each of
\* its streams reads through the test-read decorator
create_source(config, given_limits) ==
    [t |-> "ManifestDeclarativeSource",
     limit_pages_fetched_per_slice |-> given_limits.max_pages_per_slice,
     limit_slices_fetched |-> given_limits.max_slices,
     disable_cache |-> TRUE,
     disable_retries |-> TRUE,
     streams |-> [i \in 1..config.streams |->
                    [retriever |-> "SimpleRetrieverTestReadDecorator"]]]

\* The protocol command of an invocation; None when it is not given
ProtocolCommands ==
    {PyStr("read"), PyStr("check"), PyStr("spec"), PyStr("discover"), PyStr(""), None}

\* The arguments of an invocation: the command, and whether --config and
\* --catalog are given
Argvs == [command : ProtocolCommands, config : BOOLEAN, catalog : BOOLEAN]

\* Argument parsing that lets every protocol command through
ArgsAccepted_AnyCommand(args) ==
    args.command # None /\ args.config /\ args.catalog

\* Argument parsing accepts only a read with a config and a catalog
ArgsAccepted(args) ==
    args.command = PyStr("read") /\ args.config /\ args.catalog

\* The invocations of the entry points
BuilderInvocations ==
    [entry : {"get_limits"}, config : BuilderConfigs]
    \cup [entry : {"create_source"}, config : BuilderConfigs, limits : TestReadLimits]
    \cup [entry : {"handle_request"}, args : Argvs, config : BuilderConfigs]

BuilderIdle ==
    /\ invocation = [entry |-> "none"]
    /\ builder_call = [name |-> "idle"]
    /\ handled = [pc |-> "idle"]

\* An entry point is about to be invoked
InitBuilderCall ==
    /\ invocation \in BuilderInvocations
    /\ builder_call = [name |-> "idle"]
    /\ handled = [pc |-> "idle"]

\* A direct call of get_limits(config)
GetLimits ==
    /\ invocation.entry = "get_limits"
    /\ builder_call.name = "idle"
    /\ builder_call' = [name |-> "get_limits", ret |-> get_limits(invocation.config)]
    /\ UNCHANGED <<invocation, handled, coreVars, interpVars, sliceVars, routerVars,
                   backoffVars, runVars, requestVars, tailVars>>

\* A direct call of create_source(config, limits)
CreateSource ==
    /\ invocation.entry = "create_source"
    /\ builder_call.name = "idle"
    /\ builder_call' = [name |-> "create_source",
                        ret |-> create_source(invocation.config, invocation.limits)]
    /\ UNCHANGED <<invocation, handled, coreVars, interpVars, sliceVars, routerVars,
                   backoffVars, runVars, requestVars, tailVars>>

\* handle_request(args): the arguments are parsed; the process exits unless
\* they are a read with a config and a catalog
HR_ParseArgs ==
    /\ invocation.entry = "handle_request"
    /\ handled.pc = "idle"
    /\ handled' = [pc |-> IF ArgsAccepted(invocation.args) THEN "parsed" ELSE "raised",
                   limits |-> None,
                   source |-> None,
                   exc |-> IF ArgsAccepted(invocation.args) THEN None ELSE SystemExit,
                   read_started |-> FALSE,
                   report |-> FALSE]
    /\ UNCHANGED <<invocation, builder_call, coreVars, interpVars, sliceVars,
                   routerVars, backoffVars, runVars, requestVars, tailVars>>

\* handle_request: the limits are resolved from the config
HR_GetLimits ==
    /\ handled.pc = "parsed"
    /\ LET resolved == get_limits(invocation.config)
       IN  handled' = IF resolved = ValueError
                      THEN [handled EXCEPT !.pc = "raised", !.exc = ValueError]
                      ELSE [handled EXCEPT !.pc = "limits", !.limits = resolved]
    /\ UNCHANGED <<invocation, builder_call, coreVars, interpVars, sliceVars,
                   routerVars, backoffVars, runVars, requestVars, tailVars>>

\* handle_request: the source is created
HR_CreateSource ==
    /\ handled.pc = "limits"
    /\ handled' = [handled EXCEPT !.pc = "source",
                                  !.source = create_source(invocation.config, handled.limits)]
    /\ UNCHANGED <<invocation, builder_call, coreVars, interpVars, sliceVars,
                   routerVars, backoffVars, runVars, requestVars, tailVars>>

\* handle_request: the builder command of the config is carried out
\* (handle_connector_builder_request); only test_read starts a read
HR_HandleCommand ==
    /\ handled.pc = "source"
    /\ handled' =
          CASE invocation.config.command = "test_read" ->
                  [handled EXCEPT !.pc = "returned", !.read_started = TRUE,
                                  !.report = TRUE]
            [] invocation.config.command = "resolve_manifest" ->
                  [handled EXCEPT !.pc = "returned"]
            [] OTHER ->
                  [handled EXCEPT !.pc = "raised", !.exc = ValueError]
    /\ UNCHANGED <<invocation, builder_call, coreVars, interpVars, sliceVars,
                   routerVars, backoffVars, runVars, requestVars, tailVars>>

NextBuilder ==
    \/ GetLimits
    \/ CreateSource
    \/ HR_ParseArgs
    \/ HR_GetLimits
    \/ HR_CreateSource
    \/ HR_HandleCommand

----------------------------------------------------------------------------
(* A request against an API that answers every request with 429, under a   *)
(* ConstantBackoffStrategy (test_handle_429_response)                      *)

Response429 == [t |-> "Response", status_code |-> 429]

\* The configs of a test read whose limits resolve
TestReadRunConfigs ==
    {config \in BuilderConfigs :
        config.command = "test_read" /\ get_limits(config) # ValueError}

\* The source of a regular sync: no ceilings, cache and retries enabled
RegularSource(config) ==
    [t |-> "ManifestDeclarativeSource",
     limit_pages_fetched_per_slice |-> None,
     limit_slices_fetched |-> None,
     disable_cache |-> FALSE,
     disable_retries |-> FALSE,
     streams |-> [i \in 1..config.streams |-> [retriever |-> "SimpleRetriever"]]]

\* The retries the request loop allows: none when the source disables
\* retries, else the attempt ceiling of the pipeline
RetriesAllowed(source, max_retries) ==
    IF source.disable_retries THEN 0 ELSE max_retries

RequestIdle == http = [pc |-> "idle"]

\* A read is about to send its first request: a test read on the source of
\* create_source, or a regular sync
InitRequest ==
    \E config \in TestReadRunConfigs, mode \in {"test_read", "sync"},
       max_retries \in 1..MaxRetries :
        http = [pc |-> "ready",
                mode |-> mode,
                source |-> IF mode = "test_read"
                           THEN create_source(config, get_limits(config))
                           ELSE RegularSource(config),
                max_retries |-> max_retries,
                sent |-> 0]

\* The request is sent; the API answers 429
SendRequest ==
    /\ http.pc = "ready"
    /\ http' = [http EXCEPT !.pc = "answered", !.sent = @ + 1]
    /\ UNCHANGED <<backoffVars, coreVars, interpVars, sliceVars, routerVars,
                   runVars, builderVars, tailVars>>

\* The 429 answer is handled: with a retry left the backoff strategy is asked
\* for the wait and a duration puts the loop to sleep; else the error is
\* reported and the request is over
HandleErrorResponse ==
    /\ http.pc = "answered"
    /\ IF http.sent - 1 < RetriesAllowed(http.source, http.max_retries)
       THEN LET wait == ConstantBackoffStrategy_backoff_time(
                            backoff_time_in_seconds, context, Response429, http.sent)
            IN  /\ backoff_call' = [name |-> "backoff_time",
                                    response_or_exception |-> Response429,
                                    attempt_count |-> http.sent,
                                    ret |-> wait]
                /\ http' = [http EXCEPT !.pc = IF wait = None THEN "reported"
                                               ELSE "sleeping"]
       ELSE /\ http' = [http EXCEPT !.pc = "reported"]
            /\ UNCHANGED backoff_call
    /\ UNCHANGED <<backoff_time_in_seconds, coreVars, interpVars, sliceVars,
                   routerVars, runVars, builderVars, tailVars>>

\* The wait is over; the request is sent again
WakeUp ==
    /\ http.pc = "sleeping"
    /\ http' = [http EXCEPT !.pc = "ready"]
    /\ UNCHANGED <<backoffVars, coreVars, interpVars, sliceVars, routerVars,
                   runVars, builderVars, tailVars>>

NextThrottled ==
    \/ SendRequest
    \/ HandleErrorResponse
    \/ WakeUp

----------------------------------------------------------------------------
(* The lazy CSV row generator and the dialect it registers                 *)
(* (file_based csv_parser read_data, test_csv_parser.py)                   *)

RECURSIVE RowsOfLen(_)
\* The data rows of a file, each row given by the number of its values
RowsOfLen(n) ==
    IF n = 0
    THEN {<<>>}
    ELSE {Append(rows, width) : rows \in RowsOfLen(n - 1),
                                width \in 1..(MaxColumns + 1)}

\* The CSV files: a header of some columns and the data rows
CsvFiles ==
    [columns : 1..MaxColumns, rows : UNION {RowsOfLen(n) : n \in 0..MaxRows}]

\* The dialect a generator registers, and the dialects of the csv module
DIALECT_NAME == "config_name_config_dialect"

BuiltinDialects == {"excel", "unix"}

\* What a data row makes of the generator: a record, or a RecordParseError
\* when the row holds too many or too few values
RowOutcome(columns, width) ==
    IF width > columns THEN "too_many_values"
    ELSE IF width < columns THEN "too_few_values"
    ELSE "record"

\* An exit that leaves the dialect registered
read_data_exit_Leak(dialects) == dialects

\* The exit of the generator's body: the dialect is unregistered
read_data_exit(dialects) == dialects \ {DIALECT_NAME}

CsvIdle ==
    /\ csv_gen = [pc |-> "idle"]
    /\ csv_dialects = BuiltinDialects

\* read_data was called: the generator exists, nothing of its body has run
InitCsv ==
    /\ csv_gen \in [pc : {"created"}, file : CsvFiles, lineno : {0}]
    /\ csv_dialects = BuiltinDialects

\* next(generator): the first call starts the body, which registers the
\* dialect; the body then reads rows until it yields one, raises on one, or
\* finds none left
G_Next ==
    /\ csv_gen.pc \in {"created", "suspended"}
    /\ LET registered_dialects == csv_dialects \cup {DIALECT_NAME}
           file == csv_gen.file
       IN  IF csv_gen.lineno = Len(file.rows)
           THEN /\ csv_gen' = [csv_gen EXCEPT !.pc = "exhausted"]
                /\ csv_dialects' = read_data_exit(registered_dialects)
           ELSE LET outcome == RowOutcome(file.columns, file.rows[csv_gen.lineno + 1])
                IN  IF outcome = "record"
                    THEN /\ csv_gen' = [csv_gen EXCEPT !.pc = "suspended",
                                                       !.lineno = @ + 1]
                         /\ csv_dialects' = registered_dialects
                    ELSE /\ csv_gen' = [csv_gen EXCEPT !.pc = "raised",
                                                       !.lineno = @ + 1]
                         /\ csv_dialects' = read_data_exit(registered_dialects)
    /\ UNCHANGED <<coreVars, interpVars, sliceVars, routerVars, backoffVars,
                   runVars, builderVars, requestVars, unstructuredVars,
                   discoveryVars>>

\* generator.close(): a generator suspended at a yield leaves its body; one
\* that never started has nothing to leave
G_Close ==
    /\ csv_gen.pc \in {"created", "suspended"}
    /\ csv_gen' = [csv_gen EXCEPT !.pc = "closed"]
    /\ csv_dialects' = IF csv_gen.pc = "suspended"
                       THEN read_data_exit(csv_dialects)
                       ELSE csv_dialects
    /\ UNCHANGED <<coreVars, interpVars, sliceVars, routerVars, backoffVars,
                   runVars, builderVars, requestVars, unstructuredVars,
                   discoveryVars>>

NextCsv ==
    \/ G_Next
    \/ G_Close

----------------------------------------------------------------------------
(* UnstructuredParser: parse_records, _read_file and the remote retries    *)
(* (sources/file_based/file_types/unstructured_parser.py)                  *)

\* max_tries of the backoff decorator of _read_file_remotely_with_retries
MAX_TRIES == 5

\* The answers to a remote request: a status code, or no answer at all
ConnectionFailed == 0

RemoteOutcomes == {200, 422, 400, 404, 500, ConnectionFailed}

\* The exception _read_file_remotely raises on an answer, None on success:
\* 422 is a RecordParseError, any other error status and a failed connection
\* are requests exceptions (raise_for_status)
RemoteException(outcome) ==
    CASE outcome = 200 -> None
      [] outcome = 422 ->
            [RecordParseError |-> TRUE, RequestException |-> FALSE, response |-> None]
      [] outcome = ConnectionFailed ->
            [RecordParseError |-> FALSE, RequestException |-> TRUE, response |-> None]
      [] OTHER ->
            [RecordParseError |-> FALSE, RequestException |-> TRUE,
             response |-> [status_code |-> outcome]]

\* user_error(e): False unless e is a RecordParseError, False unless e is a
\* request exception, else whether the response is truthy (a requests
\* Response is truthy when its status is below 400) and its status is 4xx
user_error(e) ==
    IF ~e.RecordParseError THEN FALSE
    ELSE IF ~e.RequestException THEN FALSE
    ELSE /\ e.response # None
         /\ e.response.status_code < 400
         /\ 400 <= e.response.status_code /\ e.response.status_code < 500

\* backoff.on_exception(expo, RequestException, max_tries, giveup): after an
\* attempt that raised e, whether another attempt is made
Retried(e, tries) ==
    e.RequestException /\ ~user_error(e) /\ tries < MAX_TRIES

\* The file types: read as text, partitioned, not supported
FileTypes == {"md", "txt", "pdf", "docx", "unk"}

supported_file_types == {"md", "pdf", "docx", "pptx", "txt"}

\* The format of the stream: where files are processed, and whether a file
\* that cannot be parsed is skipped
Formats == [mode : {"local", "api"}, skip_unprocessable_files : BOOLEAN]

\* The records parse_records yields
ContentRecord == [content |-> PyStr("markdown"), parse_error |-> None]

ErrorRecord == [content |-> None, parse_error |-> PyStr("RecordParseError")]

\* What the file's exceptions are called in the outcome
ParseError == [t |-> "RecordParseError"]

ConfigError == [t |-> "AirbyteTracedException", failure_type |-> "config_error"]

TransportError == [t |-> "RequestException"]

\* _read_file that lets the exception of remote processing through as it is
read_file_on_exception_Raw(e) ==
    IF e.RecordParseError THEN ParseError ELSE TransportError

\* _read_file on an exception of remote processing: a RecordParseError is
\* raised again, anything else is raised as a config error
read_file_on_exception(e) ==
    IF e.RecordParseError THEN ParseError ELSE ConfigError

\* parse_records that skips a file whatever the flag says
parse_records_on_exception_Skip(p, exception) ==
    IF exception = ParseError
    THEN [p EXCEPT !.pc = "suspended", !.records = Append(@, ErrorRecord)]
    ELSE [p EXCEPT !.pc = "raised", !.exc = exception, !.handle = "closed"]

\* parse_records on an exception of _read_file: a RecordParseError becomes an
\* error record when skip_unprocessable_files is set; else the exception
\* leaves the generator, through the with block that closes the file
parse_records_on_exception(p, exception) ==
    IF exception = ParseError /\ p.format.skip_unprocessable_files
    THEN [p EXCEPT !.pc = "suspended", !.records = Append(@, ErrorRecord)]
    ELSE [p EXCEPT !.pc = "raised", !.exc = exception, !.handle = "closed"]

\* parse_records when _read_file returned the markdown
parse_records_on_markdown(p) ==
    [p EXCEPT !.pc = "suspended", !.records = Append(@, ContentRecord)]

UnstructuredIdle ==
    /\ parser = [pc |-> "idle"]
    /\ attempts = <<>>

\* parse_records was called on a file: the generator exists
InitUnstructured ==
    /\ parser \in [pc : {"created"}, filetype : FileTypes, format : Formats,
                   handle : {"none"}, records : {<<>>}, exc : {None}]
    /\ attempts = <<>>

\* The first next(): the file is opened and _read_file runs up to its
\* result, or up to the first remote request
P_Start ==
    /\ parser.pc = "created"
    /\ LET opened == [parser EXCEPT !.handle = "open"]
       IN  IF parser.filetype \in {"md", "txt"}
           THEN parser' = parse_records_on_markdown(opened)
           ELSE IF parser.filetype \notin supported_file_types
           THEN parser' = parse_records_on_exception(opened, ParseError)
           ELSE IF parser.format.mode = "local"
           THEN \E parsed \in BOOLEAN :
                   parser' = IF parsed
                             THEN parse_records_on_markdown(opened)
                             ELSE parse_records_on_exception(opened, ParseError)
           ELSE parser' = [opened EXCEPT !.pc = "remote"]
    /\ UNCHANGED <<attempts, coreVars, interpVars, sliceVars, routerVars, backoffVars,
                   runVars, builderVars, requestVars, csvVars, discoveryVars>>

\* One attempt of _read_file_remotely under the backoff decorator
P_Attempt ==
    /\ parser.pc = "remote"
    /\ \E outcome \in RemoteOutcomes :
          LET e == RemoteException(outcome)
          IN  /\ attempts' = Append(attempts, outcome)
              /\ parser' =
                    IF e = None THEN parse_records_on_markdown(parser)
                    ELSE IF Retried(e, Len(attempts) + 1) THEN parser
                    ELSE parse_records_on_exception(parser, read_file_on_exception(e))
    /\ UNCHANGED <<coreVars, interpVars, sliceVars, routerVars, backoffVars,
                   runVars, builderVars, requestVars, csvVars, discoveryVars>>

\* next() after the record: the generator's body ends, the file is closed
P_Next ==
    /\ parser.pc = "suspended"
    /\ parser' = [parser EXCEPT !.pc = "exhausted", !.handle = "closed"]
    /\ UNCHANGED <<attempts, coreVars, interpVars, sliceVars, routerVars, backoffVars,
                   runVars, builderVars, requestVars, csvVars, discoveryVars>>

\* close() at the yield: the with block closes the file
P_Close ==
    /\ parser.pc = "suspended"
    /\ parser' = [parser EXCEPT !.pc = "closed", !.handle = "closed"]
    /\ UNCHANGED <<attempts, coreVars, interpVars, sliceVars, routerVars, backoffVars,
                   runVars, builderVars, requestVars, csvVars, discoveryVars>>

NextUnstructured ==
    \/ P_Start
    \/ P_Attempt
    \/ P_Next
    \/ P_Close

----------------------------------------------------------------------------
(* Secret discovery: get_secret_paths and get_secrets                      *)
(* (utils/airbyte_secrets_utils.py)                                        *)

\* JSON values: a dict keeps its items in insertion order, a list its
\* elements; the leaves are the Python values above
Entry(key, value) == [key |-> key, value |-> value]

JsonObject(items) == [t |-> "dict", items |-> items]

JsonArray(elems) == [t |-> "list", elems |-> elems]

\* The outcome of a lookup that raised KeyError
KeyError == [t |-> "KeyError"]

\* key in d, and d[key], on a dict
HasKey(d, key) == \E i \in 1..Len(d.items) : d.items[i].key = key

GetItem(d, key) ==
    d.items[CHOOSE i \in 1..Len(d.items) : d.items[i].key = key].value

\* The segments the filter of traverse_schema drops from a path
DroppedSegments == {"properties", "oneOf"}

\* traverse_schema(schema_item, path): the paths it appends, in order
RECURSIVE traverse_schema(_, _), traverse_items(_, _, _), traverse_elems(_, _, _)
traverse_schema(schema_item, path) ==
    IF schema_item.t = "dict"
    THEN traverse_items(schema_item.items, 1, path)
    ELSE IF schema_item.t = "list"
    THEN traverse_elems(schema_item.elems, 1, path)
    ELSE IF path[Len(path)] = "airbyte_secret"
            /\ schema_item.t = "bool" /\ schema_item.b
    THEN LET kept(p) == p \notin DroppedSegments
         IN  <<SelectSeq(SubSeq(path, 1, Len(path) - 1), kept)>>
    ELSE <<>>

\* for k, v in schema_item.items(): traverse_schema(v, [*path, k])
traverse_items(items, i, path) ==
    IF i > Len(items)
    THEN <<>>
    ELSE traverse_schema(items[i].value, Append(path, items[i].key))
             \o traverse_items(items, i + 1, path)

\* for i in schema_item: traverse_schema(i, path)
traverse_elems(elems, i, path) ==
    IF i > Len(elems)
    THEN <<>>
    ELSE traverse_schema(elems[i], path) \o traverse_elems(elems, i + 1, path)

get_secret_paths(spec) == traverse_schema(spec, <<>>)

\* dpath.get(obj, path) with a list of plain segments: the value the
\* segments lead to through nested dicts, KeyError when nothing is there;
\* an empty list of segments matches nothing
RECURSIVE dpath_walk(_, _)
dpath_walk(obj, path) ==
    IF path = <<>> THEN obj
    ELSE IF obj.t # "dict" THEN KeyError
    ELSE IF ~HasKey(obj, Head(path)) THEN KeyError
    ELSE dpath_walk(GetItem(obj, Head(path)), Tail(path))

dpath_get(obj, path) == IF path = <<>> THEN KeyError ELSE dpath_walk(obj, path)

\* The loop of get_secrets over the secret paths from the i-th on
RECURSIVE get_secrets_loop(_, _, _)
get_secrets_loop(secret_paths, i, config) ==
    IF i > Len(secret_paths)
    THEN <<>>
    ELSE LET found == dpath_get(config, secret_paths[i])
             rest == get_secrets_loop(secret_paths, i + 1, config)
         IN  IF found = KeyError THEN rest ELSE <<found>> \o rest

get_secrets(connection_specification, config) ==
    LET properties == IF HasKey(connection_specification, "properties")
                      THEN GetItem(connection_specification, "properties")
                      ELSE JsonObject(<<>>)
    IN  get_secrets_loop(get_secret_paths(properties), 1, config)

\* The names of the config fields: top-level ones, and those of an object
TopNames == {"a", "b", "properties"}
SubNames == {"a", "b"}

\* The schema of a string field: unmarked, marked secret, or marked not secret
LeafSchemas ==
    {JsonObject(<<Entry("type", PyStr("string"))>>),
     JsonObject(<<Entry("type", PyStr("string")),
                  Entry("airbyte_secret", PyBool(TRUE))>>),
     JsonObject(<<Entry("type", PyStr("string")),
                  Entry("airbyte_secret", PyBool(FALSE))>>)}

\* The schema of an object with one string field
ObjectSchemas ==
    {JsonObject(<<Entry("type", PyStr("object")),
                  Entry("properties", JsonObject(<<Entry(name, leaf)>>))>>) :
         name \in SubNames, leaf \in LeafSchemas}

\* The schema of an object that is one of two alternatives
OneOfSchemas ==
    {JsonObject(<<Entry("type", PyStr("object")),
                  Entry("oneOf", JsonArray(<<first, second>>))>>) :
         first \in ObjectSchemas,
         second \in {o \in ObjectSchemas :
                         ~HasKey(GetItem(o, "properties").items[1].value,
                                 "airbyte_secret")
                         \/ GetItem(GetItem(o, "properties").items[1].value,
                                    "airbyte_secret").b}}

FieldSchemas == LeafSchemas \cup ObjectSchemas \cup OneOfSchemas

\* The connection specifications: one field, or a string or plain object
\* field followed by a second field; or no properties at all
ConnectionSpecifications ==
    {JsonObject(<<Entry("type", PyStr("object"))>>)}
    \cup {JsonObject(<<Entry("type", PyStr("object")),
                       Entry("properties", JsonObject(<<Entry(name, field)>>))>>) :
              name \in TopNames, field \in FieldSchemas}
    \cup {JsonObject(<<Entry("type", PyStr("object")),
                       Entry("properties",
                             JsonObject(<<Entry(pair[1], first),
                                          Entry(pair[2], second)>>))>>) :
              pair \in {p \in TopNames \X TopNames : p[1] # p[2]},
              first \in LeafSchemas, second \in FieldSchemas}

\* What a config holds under a top-level name: nothing, a string, or an
\* object of strings; every string names the path it is stored at
ConfigFieldShapes == {"absent", "string", "object_a", "object_ab"}

ConfigField(name, shape) ==
    CASE shape = "string" -> PyStr(name)
      [] shape = "object_a" ->
            JsonObject(<<Entry("a", PyStr(name \o ".a"))>>)
      [] OTHER ->
            JsonObject(<<Entry("a", PyStr(name \o ".a")),
                         Entry("b", PyStr(name \o ".b"))>>)

ConfigOfShapes(shapes) ==
    LET entry(name) == IF shapes[name] = "absent"
                       THEN <<>>
                       ELSE <<Entry(name, ConfigField(name, shapes[name]))>>
    IN  JsonObject(entry("a") \o entry("b") \o entry("properties"))

Configs == {ConfigOfShapes(shapes) : shapes \in [TopNames -> ConfigFieldShapes]}

DiscoveryIdle == discovery = [pc |-> "idle"]

\* A run about to discover the secrets of its config
InitDiscovery ==
    discovery \in [pc : {"start"},
                   connection_specification : ConnectionSpecifications,
                   config : Configs]

\* get_secrets(connection_specification, config)
GetSecrets ==
    /\ discovery.pc = "start"
    /\ discovery' =
          [pc |-> "returned",
           connection_specification |-> discovery.connection_specification,
           config |-> discovery.config,
           result |-> get_secrets(discovery.connection_specification,
                                  discovery.config)]
    /\ UNCHANGED <<coreVars, interpVars, sliceVars, routerVars, backoffVars,
                   runVars, builderVars, requestVars, csvVars, unstructuredVars>>

NextDiscovery == GetSecrets

----------------------------------------------------------------------------
(* The pagination strategy as a state machine *)

PaginationIdle ==
    /\ kind = "none"
    /\ constructed = FALSE
    /\ start_from_page = 0
    /\ inject_on_first_request = FALSE
    /\ page = 0
    /\ page_size = None
    /\ stop_condition = None
    /\ initial_cursor = None
    /\ calls = <<>>
    /\ op = [name |-> "idle"]

\* initial_token of the constructed strategy
initial_token ==
    IF kind = "PageIncrement"
    THEN PageIncrement_initial_token(inject_on_first_request, page)
    ELSE CursorPaginationStrategy_initial_token(initial_cursor)

InitPageIncrement ==
    /\ kind = "PageIncrement"
    /\ start_from_page \in 0..MaxStartPage
    /\ inject_on_first_request \in BOOLEAN
    /\ page = start_from_page
    /\ \E arg \in PageSizeArgs :
          LET r == PageIncrement_post_init(arg)
          IN  /\ constructed = ~r.raised
              /\ page_size = r.page_size
    /\ stop_condition = None
    /\ initial_cursor = None
    /\ calls = <<>>
    /\ op = [name |-> "init"]

InitCursorPagination ==
    /\ kind = "CursorPaginationStrategy"
    /\ constructed = TRUE
    /\ start_from_page = 0
    /\ inject_on_first_request = FALSE
    /\ page = 0
    /\ page_size = None
    /\ \E arg \in StopConditionArgs :
          stop_condition = CursorPaginationStrategy_post_init(arg)
    /\ initial_cursor = None
    /\ calls = <<>>
    /\ op = [name |-> "init"]

\* PageIncrement.next_page_token on a page of n records
PI_NextPageToken ==
    /\ kind = "PageIncrement"
    /\ constructed
    /\ Len(calls) < MaxCalls
    /\ \E n \in 0..MaxLastPageSize :
          LET r == PageIncrement_next_page_token(page, page_size, n)
          IN  /\ page' = r.page
              /\ calls' = Append(calls, [last_page_size |-> n, ret |-> r.ret])
              /\ op' = [name |-> "next_page_token", ret |-> r.ret]
    /\ UNCHANGED <<kind, constructed, start_from_page, page_size,
                   inject_on_first_request, stop_condition, initial_cursor, secVars,
                   readVars, auxVars>>

\* PageIncrement.reset
PI_Reset ==
    /\ kind = "PageIncrement"
    /\ constructed
    /\ \E v \in ResetValues :
          LET r == PageIncrement_reset(page, start_from_page, v)
          IN  /\ page' = r.page
              /\ calls' = IF r.raised THEN calls ELSE <<>>
              /\ op' = [name |-> "reset", value |-> v, raised |-> r.raised,
                        page_before |-> page]
    /\ UNCHANGED <<kind, constructed, start_from_page, page_size,
                   inject_on_first_request, stop_condition, initial_cursor, secVars,
                   readVars, auxVars>>

\* CursorPaginationStrategy.next_page_token on a response
CP_NextPageToken ==
    /\ kind = "CursorPaginationStrategy"
    /\ Len(calls) < MaxCursorCalls
    /\ \E response \in Responses :
          LET ret == CursorPaginationStrategy_next_page_token(stop_condition, response)
          IN  /\ calls' = Append(calls, [response |-> response, ret |-> ret])
              /\ op' = [name |-> "next_page_token", ret |-> ret]
    /\ UNCHANGED <<kind, constructed, start_from_page, page_size,
                   inject_on_first_request, page, stop_condition, initial_cursor,
                   secVars, readVars, auxVars>>

\* CursorPaginationStrategy.reset
CP_Reset ==
    /\ kind = "CursorPaginationStrategy"
    /\ \E v \in ResetValues :
          /\ initial_cursor' = CursorPaginationStrategy_reset(v)
          /\ op' = [name |-> "reset", value |-> v, raised |-> FALSE]
    /\ calls' = <<>>
    /\ UNCHANGED <<kind, constructed, start_from_page, page_size,
                   inject_on_first_request, page, stop_condition, secVars,
                   readVars, auxVars>>

----------------------------------------------------------------------------
(* Components at rest, and the specification of the interpolation wrappers *)

SliceIdle ==
    /\ slice = None
    /\ sop = [name |-> "idle"]
    /\ acc = [pc |-> "idle"]

RouterIdle ==
    /\ router = EmptyItems
    /\ rop = [name |-> "idle"]

TailIdle == CsvIdle /\ UnstructuredIdle /\ DiscoveryIdle

LateIdle == RunsIdle /\ BuilderIdle /\ RequestIdle /\ TailIdle

ExtIdle == BackoffIdle /\ LateIdle

AuxIdle == InterpIdle /\ SliceIdle /\ RouterIdle /\ ExtIdle

CoreIdle == PaginationIdle /\ SecretsIdle /\ ReadIdle

InitInterpolation ==
    (InitBoolean \/ InitMapping) /\ SliceIdle /\ RouterIdle /\ CoreIdle /\ ExtIdle

SpecInterpolation == InitInterpolation /\ [][NextInterpolation]_vars

InitSlices == SliceIdle /\ InterpIdle /\ RouterIdle /\ CoreIdle /\ ExtIdle

SpecSlices == InitSlices /\ [][NextSlices]_vars

InitRouterRun == InitRouter /\ InterpIdle /\ SliceIdle /\ CoreIdle /\ ExtIdle

SpecRouter == InitRouterRun /\ [][NextRouter]_vars

InitBackoffRun == InitBackoff /\ SliceIdle /\ RouterIdle /\ CoreIdle /\ LateIdle

SpecBackoff == InitBackoffRun /\ [][NextBackoff]_vars

InitRunsRun ==
    /\ InitRuns /\ PaginationIdle /\ ReadIdle
    /\ InterpIdle /\ SliceIdle /\ RouterIdle /\ BackoffIdle /\ BuilderIdle
    /\ RequestIdle /\ TailIdle

SpecRuns == InitRunsRun /\ [][NextRuns]_vars

InitBuilder == InitBuilderCall /\ RunsIdle /\ CoreIdle /\ InterpIdle /\ SliceIdle
               /\ RouterIdle /\ BackoffIdle /\ RequestIdle /\ TailIdle

SpecBuilder == InitBuilder /\ [][NextBuilder]_vars

InitThrottled ==
    /\ InitBackoff /\ InitRequest
    /\ SliceIdle /\ RouterIdle /\ CoreIdle /\ RunsIdle /\ BuilderIdle /\ TailIdle

\* The request loop is single-threaded and synchronous: it always goes on
SpecThrottled ==
    InitThrottled /\ [][NextThrottled]_vars /\ WF_vars(NextThrottled)

InitCsvRun ==
    /\ InitCsv /\ CoreIdle /\ InterpIdle /\ SliceIdle /\ RouterIdle /\ BackoffIdle
    /\ RunsIdle /\ BuilderIdle /\ RequestIdle /\ UnstructuredIdle /\ DiscoveryIdle

SpecCsv == InitCsvRun /\ [][NextCsv]_vars

InitUnstructuredRun ==
    /\ InitUnstructured /\ CoreIdle /\ InterpIdle /\ SliceIdle /\ RouterIdle
    /\ BackoffIdle /\ RunsIdle /\ BuilderIdle /\ RequestIdle /\ CsvIdle
    /\ DiscoveryIdle

SpecUnstructured == InitUnstructuredRun /\ [][NextUnstructured]_vars

InitDiscoveryRun ==
    /\ InitDiscovery /\ CoreIdle /\ InterpIdle /\ SliceIdle /\ RouterIdle
    /\ BackoffIdle /\ RunsIdle /\ BuilderIdle /\ RequestIdle /\ CsvIdle
    /\ UnstructuredIdle

SpecDiscovery == InitDiscoveryRun /\ [][NextDiscovery]_vars

----------------------------------------------------------------------------

InitPagination ==
    (InitPageIncrement \/ InitCursorPagination) /\ SecretsIdle /\ ReadIdle /\ AuxIdle

NextPagination ==
    \/ PI_NextPageToken
    \/ PI_Reset
    \/ CP_NextPageToken
    \/ CP_Reset

SpecPagination == InitPagination /\ [][NextPagination]_vars

NextSecrets ==
    \/ UpdateSecrets
    \/ AddToSecrets
    \/ FilterSecrets

InitSecretsRun == InitSecrets /\ PaginationIdle /\ ReadIdle /\ AuxIdle

SpecSecrets == InitSecretsRun /\ [][NextSecrets]_vars

InitReadRun == InitRead /\ PaginationIdle /\ AuxIdle

SpecRead == InitReadRun /\ [][NextRead]_vars

----------------------------------------------------------------------------
(* Properties of the pagination strategies *)

\* A step that is a next_page_token call
NextPageTokenStep == Len(calls') = Len(calls) + 1

\* The stop rule of the counter-based strategy, as specified: the page was
\* empty, or a page size P is configured and the page held fewer than P records
PageIsShort(n) == n = 0 \/ (page_size # None /\ n < page_size.i)

\* The record counts and the tokens of the calls since the last reset
LastPageSizes == [i \in 1..Len(calls) |-> calls[i].last_page_size]
IsToken(v) == v # None

C1_Step ==
    (kind = "PageIncrement" /\ NextPageTokenStep) =>
        LET n == calls'[Len(calls')].last_page_size
        IN  IF PageIsShort(n)
            THEN op'.ret = None /\ page' = page
            ELSE page' = page + 1 /\ op'.ret = PyInt(page + 1)

C1_Scenario ==
    kind = "PageIncrement" =>
        /\ (page_size = PyInt(2) /\ LastPageSizes = <<2, 2, 1>>) =>
              /\ IsToken(calls[1].ret)
              /\ IsToken(calls[2].ret)
              /\ calls[3].ret = None
        /\ page_size = None =>
              \A i \in 1..Len(calls) :
                  (calls[i].ret = None) <=> (calls[i].last_page_size = 0)

\* C1: PageIncrement.next_page_token(last_page_size = n) returns None and
\* leaves the page counter unchanged when n = 0 or when a page size P is
\* configured and n < P; otherwise it increments the counter by exactly 1 and
\* returns the new counter. With page size 2 and record counts 2, 2, 1 it
\* returns a token, a token, then None; with no page size only an empty page
\* stops pagination.
C1_NextPageToken == [][C1_Step]_vars /\ []C1_Scenario

\* C1 witness: page size 2, pages of 2, 2 and 1 records, two tokens then None
C1_Witness ==
    /\ kind = "PageIncrement"
    /\ page_size = PyInt(2)
    /\ LastPageSizes = <<2, 2, 1>>
    /\ calls[2].ret = PyInt(start_from_page + 2)
    /\ op = [name |-> "next_page_token", ret |-> None]
    /\ page = start_from_page + 2

\* The stop condition of a cursor strategy is configured and evaluates true
\* on a response
StopConditionTrue(response) ==
    /\ stop_condition # None
    /\ InterpolatedBoolean_eval(stop_condition, response.stop)

\* The cursor expression evaluates to a non-empty value on a response
CursorNonEmpty(response) ==
    response.cursor \in {PyStr("next")}

\* C7: CursorPaginationStrategy.next_page_token returns None whenever the
\* configured stop condition evaluates true, for every response, even when the
\* cursor expression evaluates to a non-empty value.
C7_StopConditionPrecedence ==
    kind = "CursorPaginationStrategy" =>
        \A i \in 1..Len(calls) :
            StopConditionTrue(calls[i].response) => calls[i].ret = None

\* C7 witness: the stop condition is a template that evaluates true on a
\* response whose cursor is non-empty, and the call returned None
C7_Witness ==
    /\ kind = "CursorPaginationStrategy"
    /\ stop_condition # None
    /\ stop_condition.condition.t = "str"
    /\ Len(calls) > 0
    /\ LET c == calls[Len(calls)]
       IN  /\ StopConditionTrue(c.response)
           /\ CursorNonEmpty(c.response)
           /\ c.ret = None

\* The stop rule of a call, from the call's own arguments: an empty or short
\* page for the counter-based strategy; a true stop condition or an empty
\* cursor for the cursor-based one
CursorIsEmpty(response) ==
    response.cursor \in {Fail, None, PyStr(""), PyInt(0), PyList(0)}

CallMeetsStopRule(c) ==
    IF kind = "PageIncrement"
    THEN PageIsShort(c.last_page_size)
    ELSE StopConditionTrue(c.response) \/ CursorIsEmpty(c.response)

\* C8 as stated: once next_page_token has returned null, no later call returns
\* a token until reset is called (reset empties calls).
C8_ExhaustedIsTerminal ==
    \A i, j \in 1..Len(calls) :
        (i < j /\ calls[i].ret = None) => calls[j].ret = None

C8_NullStep ==
    (NextPageTokenStep /\ op'.ret = None) =>
        /\ page' = page
        /\ initial_cursor' = initial_cursor
        /\ initial_token' = initial_token

C8_LaterCalls ==
    \A i, j \in 1..Len(calls) :
        (i < j /\ calls[i].ret = None) =>
            ((calls[j].ret = None) <=> CallMeetsStopRule(calls[j]))

\* C8 amended: neither strategy records exhaustion. A null return leaves the
\* page counter and the initial token unchanged, and every later call decides
\* anew from its own arguments: it returns null exactly when they meet the stop
\* rule, and a token otherwise.
C8_NoExhaustedState == [][C8_NullStep]_vars /\ []C8_LaterCalls

\* C8 witness: a call that returned null is followed, with no reset between,
\* by a call that returned a token
C8_Witness ==
    \E i, j \in 1..Len(calls) :
        i < j /\ calls[i].ret = None /\ IsToken(calls[j].ret)

\* The page a successful reset(v) selects
ResetTarget(v) == IF v = None THEN start_from_page ELSE v.i

C9_AfterReset ==
    (kind = "PageIncrement" /\ op.name = "reset" /\ ~op.raised) =>
        page = ResetTarget(op.value)

C9_FirstToken ==
    (/\ kind = "PageIncrement"
     /\ op.name = "reset"
     /\ ~op.raised
     /\ NextPageTokenStep
     /\ ~PageIsShort(calls'[1].last_page_size)) =>
        op'.ret = PyInt(ResetTarget(op.value) + 1)

\* C9: after any sequence of next_page_token calls, PageIncrement.reset() with
\* no value sets the page counter back to start_from_page and reset(k) with an
\* integer k sets it to k, so the next token produced after a full page is
\* start_from_page + 1, respectively k + 1.
C9_ResetRestarts == []C9_AfterReset /\ [][C9_FirstToken]_vars

\* C9 witness: the counter had moved away from the starting page through
\* next_page_token calls and reset() with no value put it back
C9_Witness ==
    /\ kind = "PageIncrement"
    /\ op.name = "reset"
    /\ op.value = None
    /\ ~op.raised
    /\ op.page_before > start_from_page
    /\ page = start_from_page
    /\ calls = <<>>

\* A reset value that is neither absent nor an integer
NotAnInteger(v) == v # None /\ v.t # "int"

C10_Raises ==
    (kind = "PageIncrement" /\ op.name = "reset" /\ NotAnInteger(op.value)) =>
        op.raised

C10_Frame ==
    (kind = "PageIncrement" /\ op'.name = "reset" /\ op' # op /\ op'.raised) =>
        /\ page' = page
        /\ page_size' = page_size
        /\ initial_token' = initial_token
        /\ calls' = calls

\* C10: PageIncrement.reset(v) with a value v that is neither absent nor an
\* integer fails with an error and leaves the page counter, the page size and
\* the initial token exactly as they were before the call.
C10_BadResetChangesNothing == []C10_Raises /\ [][C10_Frame]_vars

\* C10 witness: a reset with a string failed after the counter had moved
C10_Witness ==
    /\ kind = "PageIncrement"
    /\ op.name = "reset"
    /\ op.value = PyStr("next")
    /\ op.raised
    /\ page # start_from_page
    /\ page = op.page_before
    /\ initial_token = PyInt(page)

----------------------------------------------------------------------------
(* Properties of the secret registry *)

\* sub occurs in s as a substring (case-sensitive, exact)
Occurs(sub, s) ==
    \E i \in 1..(Len(s) - Len(sub) + 1) : SubSeq(s, i, i + Len(sub) - 1) = sub

\* The registered secrets
Registered == {SECRETS_FROM_CONFIG[i] : i \in 1..Len(SECRETS_FROM_CONFIG)}

\* A secret holding the character the mask token is made of
HasMaskChar(secret) == \E i \in 1..Len(secret) : secret[i] = "*"

----------------------------------------------------------------------------
(* Properties of the bounded test read *)

\* The records of the page fetched last
LastPageRecords ==
    LET pages == slices[Len(slices)].pages IN pages[Len(pages)]

C2_Ceilings ==
    /\ Len(slices) <= limits.max_slices
    /\ \A i \in 1..Len(slices) :
          Len(slices[i].pages) <= limits.max_pages_per_slice

\* The source offers more than the limits: more partitions than max_slices,
\* no partition whose pagination ended below the page ceiling, and (as with
\* max_records = 100 in the fixture) fewer records than the record ceiling
C2_SourceOffersMore ==
    /\ partitions > limits.max_slices
    /\ ~ran_out
    /\ ~test_read_limit_reached

\* C2: the report of a bounded test read contains at most max_slices
\* partitions and every partition at most max_pages_per_slice pages; when the
\* source offers more than the limits, the report contains exactly max_slices
\* partitions, each with exactly max_pages_per_slice pages.
C2_SliceAndPageCeilings ==
    /\ C2_Ceilings
    /\ (pc = "returned" /\ ~exc.raised /\ C2_SourceOffersMore) =>
          /\ Len(slices) = limits.max_slices
          /\ \A i \in 1..Len(slices) :
                Len(slices[i].pages) = limits.max_pages_per_slice

\* C2 witness: three partitions offered, limits of two slices and two pages,
\* max_records 100; the report holds two partitions of a two-record page and
\* a one-record page each
C2_Witness ==
    /\ pc = "returned"
    /\ ~exc.raised
    /\ partitions = 3
    /\ limits = [max_records |-> DEFAULT_MAXIMUM_RECORDS, max_slices |-> 2,
                 max_pages_per_slice |-> 2]
    /\ ~ran_out
    /\ slices = <<[partition |-> 1, pages |-> <<2, 1>>],
                  [partition |-> 2, pages |-> <<2, 1>>]>>

C3_Flag ==
    /\ test_read_limit_reached <=> (RecordCount(slices) >= limits.max_records)
    /\ test_read_limit_reached => pc = "returned"
    /\ slices # <<>> => RecordCount(slices) - LastPageRecords < limits.max_records

C3_NoFetchAfterLimit ==
    RecordCount(slices) >= limits.max_records => slices' = slices

\* C3: the bounded test read stops the whole walk as soon as the global record
\* count reaches max_records, independently of max_slices and
\* max_pages_per_slice: no further page is fetched and test_read_limit_reached
\* is true; it is false when the walk ends with fewer records. The check
\* happens between page fetches: the page that reaches the ceiling is complete.
C3_RecordCeiling == []C3_Flag /\ [][C3_NoFetchAfterLimit]_vars

\* C3 witness: the walk stopped on the record ceiling, overshooting it with a
\* complete page, with slices and pages still below their ceilings
C3_Witness ==
    /\ test_read_limit_reached
    /\ pc = "returned"
    /\ RecordCount(slices) > limits.max_records
    /\ Len(slices) < SlicesToRead(limits, partitions)
    /\ Len(slices[Len(slices)].pages) < limits.max_pages_per_slice

\* A registered, non-empty secret occurs in a string
SecretOccurs(s) == \E secret \in Registered : secret # <<>> /\ Occurs(secret, s)

\* The last log entry of the report
LastLog == logs[Len(logs)]

C4_Report ==
    exc.raised =>
        /\ pc = "returned"
        /\ ~test_read_limit_reached
        /\ PageCount(slices) = 0 => slices = <<>>
        /\ Len(logs) = 1
        /\ LastLog.level = "ERROR"
        /\ ~SecretOccurs(exc.text) =>
              /\ LastLog.message = exc.text
              /\ LastLog.stacktrace = FormatTrace(exc.text)
        /\ SecretOccurs(exc.text) =>
              /\ Occurs(MASK, LastLog.message)
              /\ Occurs(MASK, LastLog.stacktrace)
              /\ LastLog.stacktrace = <<"T", ":">> \o LastLog.message

C4_KeepsSlices == (exc'.raised /\ ~exc.raised) => slices' = slices

----------------------------------------------------------------------------
(* Properties of the pagination strategies, continued *)

\* The operation just completed started a partition: the strategy was
\* constructed, or reset() was called with no value
PartitionStart ==
    \/ op.name = "init"
    \/ op.name = "reset" /\ op.value = None /\ ~op.raised

\* C11: with inject_on_first_request set, PageIncrement.initial_token is the
\* starting page after construction and after every reset() with no value,
\* whatever next_page_token calls came before; with the flag unset,
\* initial_token is None in every reachable state.
C11_InitialToken ==
    (kind = "PageIncrement" /\ constructed) =>
        /\ ~inject_on_first_request => initial_token = None
        /\ (inject_on_first_request /\ PartitionStart) =>
               initial_token = PyInt(start_from_page)

\* C11 witness: the flag is set, next_page_token calls had moved the counter
\* past the starting page, and after reset() the initial token is the
\* starting page again
C11_Witness ==
    /\ kind = "PageIncrement"
    /\ constructed
    /\ inject_on_first_request
    /\ op.name = "reset"
    /\ PartitionStart
    /\ op.page_before = start_from_page + 2
    /\ initial_token = PyInt(start_from_page)

\* The values of a cursor the statement calls empty or falsy
EmptyCursorValues == {None, PyStr(""), PyInt(0), PyList(0)}

C12_Call(c) ==
    ~StopConditionTrue(c.response) =>
        LET token == InterpolatedString_eval(c.response.cursor)
        IN  IF token \in EmptyCursorValues
            THEN c.ret = None
            ELSE c.ret = token

\* C12: when no stop condition is configured, or it evaluates false,
\* CursorPaginationStrategy.next_page_token returns the evaluated cursor value
\* if it is non-empty, and None if the evaluated cursor is empty or falsy
\* (empty string, None, 0, empty collection).
C12_CursorDecides ==
    kind = "CursorPaginationStrategy" =>
        \A i \in 1..Len(calls) : C12_Call(calls[i])

\* C12 witness: with a stop condition that evaluates false, one call returned
\* the non-empty cursor and a later call, on an empty string, returned None
C12_Witness ==
    /\ kind = "CursorPaginationStrategy"
    /\ stop_condition # None
    /\ Len(calls) = 2
    /\ ~StopConditionTrue(calls[1].response)
    /\ ~StopConditionTrue(calls[2].response)
    /\ calls[1].response.cursor = PyStr("next")
    /\ calls[1].ret = PyStr("next")
    /\ calls[2].response.cursor = PyStr("")
    /\ calls[2].ret = None

C13_AfterConstruction ==
    (kind = "CursorPaginationStrategy" /\ op.name = "init") =>
        initial_token = None

C13_Step ==
    kind = "CursorPaginationStrategy" =>
        IF op'.name = "reset"
        THEN ~op'.raised /\ initial_token' = op'.value
        ELSE initial_token' = initial_token

\* C13: CursorPaginationStrategy.initial_token is None after construction;
\* reset accepts any value and makes it the initial token (None when called
\* without a value), and next_page_token leaves the initial token alone, so
\* it is always the value of the most recent reset.
C13_InitialCursor == []C13_AfterConstruction /\ [][C13_Step]_vars

\* C13 witness: reset was called with a string, next_page_token was called
\* afterwards, and the initial token is still that string
C13_Witness ==
    /\ kind = "CursorPaginationStrategy"
    /\ op.name = "next_page_token"
    /\ Len(calls) = 2
    /\ initial_token = PyStr("next")

----------------------------------------------------------------------------
(* Properties of the interpolation wrappers *)

\* The closed falsy set of the statement
ClosedFalsySet ==
    {PyBool(FALSE), None, PyStr(""), PyStr("0"), PyStr("0.0"), PyStr("{}"),
     PyStr("[]"), PyStr("()"), PyStr("false"), PyStr("False"),
     PyList(0), PyDict(0), PyTuple(0), PySet(0)}

\* C14: for every value of the closed falsy set (False, None, "", "0", "0.0",
\* "{}", "[]", "()", "false"/"False", empty collections) a condition that
\* resolves to it evaluates to false, and every other result that is not a
\* templating error evaluates to true.
C14_FalsySetAsStated ==
    (/\ last_eval.name = "InterpolatedBoolean.eval"
     /\ ib_condition.t = "str"
     /\ last_eval.outcome # Fail) =>
        last_eval.result = (last_eval.outcome \notin ClosedFalsySet)

\* What the engine makes of the i-th key and of the i-th value of the stored
\* mapping, before any type validation
EvalKey(i) == JinjaEval(Resolve(mapping[i].name, context), None)

Processed(i) ==
    IF mapping[i].value.t = "str"
    THEN JinjaEval(Resolve(mapping[i].value.s, context), None)
    ELSE mapping[i].value

MappingEvalReturned ==
    last_eval.name = "InterpolatedMapping.eval" /\ ~last_eval.ret.raised

ResultKeys == {last_eval.ret.result[j].key : j \in 1..Len(last_eval.ret.result)}
ResultValues == {last_eval.ret.result[j].value : j \in 1..Len(last_eval.ret.result)}

\* C15 as stated: every key is evaluated and satisfies the key type
\* constraint, every string value is evaluated, and every non-string value
\* appears in the result unchanged.
C15_MappingAsStated ==
    MappingEvalReturned =>
        \A i \in 1..Len(mapping) :
            /\ EvalKey(i).t \in last_eval.valid_key_types
            /\ EvalKey(i) \in ResultKeys
            /\ Processed(i) \in ResultValues

\* The call raises exactly when a key, or an evaluated string value under
\* valid_value_types, is of none of the valid types
FailsTypes ==
    \E i \in 1..Len(mapping) :
        \/ EvalKey(i).t \notin last_eval.valid_key_types
        \/ /\ mapping[i].value.t = "str"
           /\ last_eval.valid_value_types # Unchecked
           /\ Processed(i).t \notin last_eval.valid_value_types

\* No later entry of the stored mapping evaluates to the key of the i-th
IsLastForKey(i) ==
    \A j \in (i + 1)..Len(mapping) : EvalKey(j) # EvalKey(i)

C15_Result ==
    last_eval.name = "InterpolatedMapping.eval" =>
        /\ last_eval.ret.raised <=> FailsTypes
        /\ ~last_eval.ret.raised =>
              LET result == last_eval.ret.result
              IN  /\ ResultKeys = {EvalKey(i) : i \in 1..Len(mapping)}
                  /\ \A i, j \in 1..Len(result) :
                         result[i].key = result[j].key => i = j
                  /\ \A i \in 1..Len(mapping) :
                         /\ EvalKey(i).t \in last_eval.valid_key_types
                         /\ IsLastForKey(i) =>
                                \E j \in 1..Len(result) :
                                    /\ result[j].key = EvalKey(i)
                                    /\ result[j].value = Processed(i)

C15_InputKept == mapping' = mapping

\* C15 (amended): InterpolatedMapping.eval evaluates every key, and raises
\* unless each satisfies the key type constraint; the result has one entry per
\* distinct evaluated key, holding the value of the last entry that
\* evaluates to that key: evaluated by the engine if it is a string,
\* unchanged otherwise; the stored mapping is not modified.
C15_MappingEvaluated == []C15_Result /\ [][C15_InputKept]_vars

\* C15 witness: a template key with a non-string value and a literal key with
\* a template value, both found in the result
C15_Witness ==
    /\ MappingEvalReturned
    /\ mapping = <<[name |-> "{{ a }}", value |-> PyInt(1)],
                   [name |-> "k", value |-> PyStr("{{ a }}")]>>
    /\ last_eval.ret.result = <<[key |-> PyStr("x"), value |-> PyInt(1)],
                                [key |-> PyStr("k"), value |-> PyStr("x")]>>

----------------------------------------------------------------------------
(* Properties of StreamSlice *)

\* The keys of the mappings the two accessors of a slice return
PartitionKeys(s) == DOMAIN StreamSlice_partition(s).items
CursorSliceKeys(s) == DOMAIN StreamSlice_cursor_slice(s).items

C16_Disjoint ==
    slice # None => PartitionKeys(slice) \cap CursorSliceKeys(slice) = {}

C16_OverlapRaises ==
    (/\ sop.name = "init"
     /\ \E k \in {"a", "b"} :
            k \in MappingKeys(sop.partition) /\ k \in MappingKeys(sop.cursor_slice)) =>
        sop.raised

C16_NoSliceOnError ==
    (sop'.name = "init" /\ sop'.raised) => slice' = slice

\* C16: every StreamSlice that is constructed has disjoint key sets for the
\* partition and the cursor_slice its accessors return, also when a
\* constituent is itself a StreamSlice; a construction whose partition and
\* cursor_slice share a key raises and yields no slice.
C16_DisjointKeys ==
    [](C16_Disjoint /\ C16_OverlapRaises) /\ [][C16_NoSliceOnError]_vars

\* C16 witness: a slice was constructed on a nested partition with key a and
\* a cursor_slice with key b
C16_Witness ==
    /\ sop.name = "init"
    /\ ~sop.raised
    /\ slice # None
    /\ IsStreamSlice(slice.partition)
    /\ PartitionKeys(slice) = {"a"}
    /\ CursorSliceKeys(slice) = {"b"}

\* C17: two StreamSlices are equal exactly when their partition mappings are
\* equal and their cursor_slice mappings are equal, whatever their
\* extra_fields.
C17_EqualityAsStated ==
    (sop.name = "eq" /\ IsStreamSlice(sop.other)) =>
        (sop.result <=>
            /\ StreamSlice_partition(slice) = StreamSlice_partition(sop.other)
            /\ StreamSlice_cursor_slice(slice) = StreamSlice_cursor_slice(sop.other))

C18_SetItemRaises == sop.name = "setitem" => sop.raised

C18_Frame ==
    (slice # None /\ sop'.name # "init") =>
        /\ slice' # None
        /\ StreamSlice_partition(slice') = StreamSlice_partition(slice)
        /\ StreamSlice_cursor_slice(slice') = StreamSlice_cursor_slice(slice)
        /\ StreamSlice_extra_fields(slice') = StreamSlice_extra_fields(slice)
        /\ MappingView(slice') = MappingView(slice)

\* C18: every item assignment on a StreamSlice raises, and no operation on a
\* slice changes its partition, cursor_slice, extra_fields or mapping view.
C18_Immutable == []C18_SetItemRaises /\ [][C18_Frame]_vars

\* C18 witness: an assignment to a key the slice holds raised
C18_Witness ==
    /\ sop.name = "setitem"
    /\ sop.raised
    /\ sop.key = "a"
    /\ slice # None
    /\ "a" \in DOMAIN MappingView(slice)
    /\ MappingView(slice)["a"] = 1
    /\ IsStreamSlice(slice.partition)

\* The innermost mapping of a chain of nested slices, and the number of
\* slices on the chain
RECURSIVE Innermost(_, _)
Innermost(v, which) ==
    IF IsStreamSlice(v) THEN Innermost(Field(v, which), which) ELSE v

RECURSIVE ChainLength(_, _)
ChainLength(v, which) ==
    IF IsStreamSlice(v) THEN 1 + ChainLength(Field(v, which), which) ELSE 0

\* C19: on a StreamSlice of finite nesting the partition and cursor_slice
\* accessors terminate, within two steps per nested slice, and return the
\* innermost mapping, which is not a StreamSlice.
C19_AccessorTerminates ==
    /\ acc.pc = "run" => acc.steps < 2 * ChainLength(slice, acc.which) - 1
    /\ acc.pc = "done" =>
          /\ acc.steps = 2 * ChainLength(slice, acc.which) - 1
          /\ ~IsStreamSlice(acc.ret)
          /\ acc.ret = Innermost(slice, acc.which)

\* C19 witness: the partition accessor returned from a slice whose partition
\* is a slice whose partition is a slice
C19_Witness ==
    /\ acc.pc = "done"
    /\ acc.which = "partition"
    /\ ChainLength(slice, "partition") = 3
    /\ acc.ret = PlainDict([a |-> 1])

----------------------------------------------------------------------------
(* Properties of SinglePartitionRouter *)

\* C20: every call of stream_slices() yields exactly one slice with empty
\* partition and empty cursor_slice; the four request-contribution methods
\* return an empty mapping for every state, slice and page token; the state
\* accessors are no-ops: set_initial_state leaves the router as it is and
\* get_stream_state returns nothing, after any sequence of calls.
C20_SinglePartition ==
    /\ router = EmptyItems
    /\ rop.name = "stream_slices" =>
          /\ Len(rop.ret) = 1
          /\ StreamSlice_partition(rop.ret[1]) = PlainDict(EmptyItems)
          /\ StreamSlice_cursor_slice(rop.ret[1]) = PlainDict(EmptyItems)
    /\ rop.name \in RequestMethods => rop.ret = PlainDict(EmptyItems)
    /\ rop.name = "get_stream_state" => rop.ret = None

\* C20 witness: right after a set_initial_state call, stream_slices yielded
\* its one empty slice
C20_Witness ==
    /\ rop.name = "stream_slices"
    /\ rop.after = "set_initial_state"
    /\ Len(rop.ret) = 1
    /\ MappingView(rop.ret[1]) = EmptyItems

----------------------------------------------------------------------------
(* Properties of ConstantBackoffStrategy *)

C21_SameOnEveryCall ==
    (backoff_call.name = "backoff_time" /\ backoff_call'.name = "backoff_time") =>
        backoff_call'.ret = backoff_call.ret

C21_NeverGivesUp ==
    backoff_call.name = "backoff_time" => backoff_call.ret # None

DurationResolves ==
    Resolve(backoff_time_in_seconds.string, context) # Fail

C21_GivesUpOnlyUnresolved ==
    (backoff_call.name = "backoff_time" /\ DurationResolves) =>
        backoff_call.ret # None

----------------------------------------------------------------------------
(* Properties of masking: no-op, idempotence, order                        *)

\* No registered non-empty secret occurs in the given string
NoSecretIn(s) ==
    \A secret \in Registered : secret # <<>> => ~Occurs(secret, s)

\* C22: filter_secrets(s) returns s unchanged whenever s contains no
\* registered secret as a substring, also when the registry is empty or holds
\* only empty values.
C22_NoSecretNoChange ==
    (filtered.called /\ NoSecretIn(text)) => filtered.result = text

\* C22 witness: the registry holds an empty value and a secret, the string is
\* not empty and holds the secret's characters in another case and another
\* order, and filter_secrets returned the string
C22_Witness ==
    /\ filtered.called
    /\ SECRETS_FROM_CONFIG = << <<>>, <<"a", "b">> >>
    /\ text = <<"b", "A", "b">>
    /\ NoSecretIn(text)
    /\ filtered.result = text

\* Masking the result of filter_secrets once more changes nothing
MaskedAgainIsSame ==
    filter_secrets(filtered.result, SECRETS_FROM_CONFIG) = filtered.result

\* C23 as stated: masking is idempotent for any registry and any string.
C23_IdempotentAsStated == filtered.called => MaskedAgainIsSame

\* C23 amended: masking is idempotent for any string and any registry whose
\* secrets are free of the mask character '*'.
C23_Idempotent ==
    (filtered.called /\ \A secret \in Registered : ~HasMaskChar(secret))
        => MaskedAgainIsSame

\* C23 witness: a secret free of '*' occurred in the string twice, the result
\* holds the mask token, and masking the result again gives the result
C23_Witness ==
    /\ filtered.called
    /\ SECRETS_FROM_CONFIG = << <<"b", "a">>, <<"a">> >>
    /\ text = <<"a", "b", "a">>
    /\ filtered.result = MASK \o MASK
    /\ MaskedAgainIsSame

\* The orders in which the registered secrets can be processed
Orders ==
    LET n == Len(SECRETS_FROM_CONFIG)
    IN  {[i \in 1..n |-> SECRETS_FROM_CONFIG[p[i]]] :
            p \in {q \in [1..n -> 1..n] : \A i, j \in 1..n : q[i] = q[j] => i = j}}

\* C24: filter_secrets gives the same result whatever the order in which the
\* registered secrets are processed, also when one secret is a substring of
\* another.
C24_OrderIndependentAsStated ==
    filtered.called =>
        \A registry \in Orders : filter_secrets(text, registry) = filtered.result

----------------------------------------------------------------------------
(* Properties of the registry shared by two runs                           *)

\* The secrets registered so far, by either run
EverRegistered == UNION {registered[run] : run \in Runs}

\* C25: under any interleaving of two runs, a secret registered by either run
\* stays registered, and every filter_secrets call made after its
\* registration masks it.
C25_AppendOnlyAsStated ==
    /\ EverRegistered \subseteq Registered
    /\ filtered.called =>
          \A secret \in EverRegistered : ~Occurs(secret, filtered.result)

----------------------------------------------------------------------------
(* Properties of the connector builder entry points                        *)

\* get_limits was called directly and returned limits
LimitsResolved ==
    builder_call.name = "get_limits" /\ builder_call.ret # ValueError

\* The test-read configuration block get_limits was called with
GivenBlock == invocation.config.test_read_config

\* C26: when the test-read configuration block is absent or empty, get_limits
\* gives max_records = 100, max_slices = 5, max_pages_per_slice = 5; each limit
\* given in the block overrides its default, independently of the other two.
C26_Limits ==
    LimitsResolved =>
        /\ (GivenBlock = None \/ GivenBlock = PlainDict(EmptyItems)) =>
              builder_call.ret = [max_records |-> 100, max_slices |-> 5,
                                  max_pages_per_slice |-> 5]
        /\ \A key \in LimitKeys :
              builder_call.ret[key] =
                  IF GivenBlock # None /\ key \in DOMAIN GivenBlock.items
                  THEN GivenBlock.items[key]
                  ELSE CASE key = "max_records" -> 100
                         [] key = "max_slices" -> 5
                         [] key = "max_pages_per_slice" -> 5

\* C26 witness: the block gives max_slices and max_pages_per_slice different
\* values and no max_records; the two are overridden, max_records is 100
C26_Witness ==
    /\ LimitsResolved
    /\ GivenBlock = PlainDict([max_slices |-> 1, max_pages_per_slice |-> 2])
    /\ builder_call.ret = [max_records |-> 100, max_slices |-> 1,
                           max_pages_per_slice |-> 2]

----------------------------------------------------------------------------
(* Properties of the order of the bounded test read                        *)

\* A step that changes the report adds the page that came in at its end: as
\* the last page of the last partition when that partition is open, else as
\* the only page of the next partition of the router's order; what the report
\* held stays as it was
ReportGrowsAtEnd ==
    LET k == Len(slices)
    IN  slices' # slices =>
            \/ /\ slice_open
               /\ Len(slices') = k
               /\ \A i \in 1..(k - 1) : slices'[i] = slices[i]
               /\ slices'[k].partition = slices[k].partition
               /\ Len(slices'[k].pages) = Len(slices[k].pages) + 1
               /\ SubSeq(slices'[k].pages, 1, Len(slices[k].pages)) = slices[k].pages
            \/ /\ ~slice_open
               /\ Len(slices') = k + 1
               /\ SubSeq(slices', 1, k) = slices
               /\ slices'[k + 1].partition = k + 1
               /\ k + 1 <= partitions
               /\ Len(slices'[k + 1].pages) = 1

----------------------------------------------------------------------------
(* Properties of the throttled test read                                   *)

InvalidArgs ==
    \/ invocation.args.command \in
          {PyStr("check"), PyStr("spec"), PyStr("discover"), PyStr(""), None}
    \/ ~invocation.args.config
    \/ ~invocation.args.catalog

\* The config names a builder command that is not supported
UnsupportedCommand ==
    invocation.config.command \notin {"test_read", "resolve_manifest"}

SourceCreated == builder_call.name = "create_source"

\* C30: create_source(config, limits) builds, for all limits, a source whose
\* page ceiling is limits.max_pages_per_slice, whose slice ceiling is
\* limits.max_slices and whose cache is disabled, and every stream of the
\* source reads through the test-read limiting decorator.
C30_CreateSource ==
    SourceCreated =>
        /\ builder_call.ret.limit_pages_fetched_per_slice =
              invocation.limits.max_pages_per_slice
        /\ builder_call.ret.limit_slices_fetched = invocation.limits.max_slices
        /\ builder_call.ret.disable_cache
        /\ Len(builder_call.ret.streams) = invocation.config.streams
        /\ \A i \in 1..Len(builder_call.ret.streams) :
              builder_call.ret.streams[i].retriever = "SimpleRetrieverTestReadDecorator"

\* C30 witness: a source of two streams was created on limits whose page and
\* slice ceilings differ from each other and from the record ceiling
C30_Witness ==
    /\ SourceCreated
    /\ invocation.limits = [max_records |-> 3, max_slices |-> 1,
                            max_pages_per_slice |-> 2]
    /\ invocation.config.streams = 2
    /\ builder_call.ret.limit_pages_fetched_per_slice = 2
    /\ builder_call.ret.limit_slices_fetched = 1

----------------------------------------------------------------------------
(* Properties of the lazy CSV row generator                                *)

\* C31: the dialect a CSV row generator registered when iteration started is
\* unregistered once the generator ends, on every exit path: exhaustion, an
\* explicit close() after a partial read, a RecordParseError on a row with too
\* many or too few values; while the generator is suspended it is registered.
C31_DialectUnregistered ==
    /\ csv_gen.pc \in {"exhausted", "closed", "raised"} =>
          "config_name_config_dialect" \notin csv_dialects
    /\ csv_gen.pc = "suspended" => "config_name_config_dialect" \in csv_dialects

\* C31 witness: a generator that yielded a row raised on a second row with
\* too many values, and its dialect is gone
C31_Witness ==
    /\ csv_gen.pc = "raised"
    /\ csv_gen.lineno = 2
    /\ csv_gen.file.columns = 1
    /\ csv_gen.file.rows[2] = 3
    /\ csv_dialects = {"excel", "unix"}

----------------------------------------------------------------------------
(* Properties of the registry's two writers                                *)

\* A step of update_secrets, a step of add_to_secrets
UpdateStep == \E run \in Runs : Run_UpdateSecrets(run)

AddStep == \E run \in Runs : Run_AddToSecrets(run)

\* C32: update_secrets(L) replaces the registry: after it the registry holds
\* exactly the values of a list L, whatever was registered earlier;
\* add_to_secrets(s) adds s and keeps every value already registered, so on
\* every step that is not an update_secrets the registered values only grow.
C32_Writers ==
    [][/\ UpdateStep => SECRETS_FROM_CONFIG' \in {<<>>, <<<<"a">>>>, <<<<"b">>>>,
                                                   <<<<"a", "b">>>>}
       /\ AddStep => /\ Len(SECRETS_FROM_CONFIG') = Len(SECRETS_FROM_CONFIG) + 1
                     /\ SubSeq(SECRETS_FROM_CONFIG', 1, Len(SECRETS_FROM_CONFIG))
                           = SECRETS_FROM_CONFIG
       /\ ~UpdateStep => Registered \subseteq Registered']_vars

\* C32 witness: the first run registered 'a', the second run's update_secrets
\* replaced the registry by ['b'], and a text rendered afterwards has 'b'
\* masked and 'a' no longer masked
C32_Witness ==
    /\ registered[1] = {<<"a">>}
    /\ registered[2] = {<<"b">>}
    /\ SECRETS_FROM_CONFIG = <<<<"b">>>>
    /\ filtered.called
    /\ text = <<"b", "a">>
    /\ filtered.result = MASK \o <<"a">>

----------------------------------------------------------------------------
(* Properties of remote document processing                                *)

\* The answers that are request-level errors, and those with a 4xx status
RequestErrors == {400, 404, 500, 0}

ClientErrors == {400, 404}

\* C33: _read_file_remotely_with_retries makes at most 5 attempts in total,
\* retries only after a request-level error, and gives up at once, without
\* any retry, when the API answered with a 4xx client-error status.
C33_RetriesAsStated ==
    /\ Len(attempts) <= 5
    /\ \A i \in 1..(Len(attempts) - 1) :
          /\ attempts[i] \in RequestErrors
          /\ attempts[i] \notin ClientErrors

\* The generator of parse_records has yielded, has ended
Yielded == parser.pc \in {"suspended", "exhausted", "closed"}

Ended == parser.pc \in {"exhausted", "closed", "raised"}

\* The file went to the remote API, and the last answer was this one
RemoteEndedWith(outcome) ==
    /\ parser.pc # "remote"
    /\ attempts # <<>>
    /\ attempts[Len(attempts)] = outcome

\* C34: parse_records yields exactly one record per file or fails: on success
\* a record with the markdown and no parse error; on a parsing error (a 422
\* answer included) with skip_unprocessable_files set, one record with content
\* null and the error text; with the flag unset the error propagates and no
\* record is yielded. Any other failure of remote processing surfaces as a
\* config error, and the file handle is released on every path.
C34_OneRecordOrFails ==
    parser.pc \notin {"idle", "created", "remote"} =>
        /\ Yielded => (Len(parser.records) = 1 /\ parser.exc = [t |-> "none"])
        /\ parser.pc = "raised" =>
              /\ parser.records = <<>>
              /\ parser.exc \in {[t |-> "RecordParseError"],
                                 [t |-> "AirbyteTracedException",
                                  failure_type |-> "config_error"]}
        /\ (Yielded /\ parser.records[1].parse_error = [t |-> "none"]) =>
              parser.records[1].content = [t |-> "str", s |-> "markdown"]
        /\ (Yielded /\ parser.records[1].parse_error # [t |-> "none"]) =>
              /\ parser.records[1].content = [t |-> "none"]
              /\ parser.format.skip_unprocessable_files
        /\ (parser.filetype = "unk" \/ RemoteEndedWith(422)) =>
              IF parser.format.skip_unprocessable_files
              THEN Yielded /\ parser.records[1].parse_error =
                                 [t |-> "str", s |-> "RecordParseError"]
              ELSE parser.pc = "raised" /\ parser.exc = [t |-> "RecordParseError"]
        /\ (parser.filetype \in {"md", "txt"} \/ RemoteEndedWith(200)) =>
              (Yielded /\ parser.records[1].content = [t |-> "str", s |-> "markdown"])
        /\ (\E outcome \in {400, 404, 500, 0} : RemoteEndedWith(outcome)) =>
              /\ parser.pc = "raised"
              /\ parser.exc = [t |-> "AirbyteTracedException",
                               failure_type |-> "config_error"]
        /\ Ended => parser.handle = "closed"
        /\ parser.pc = "suspended" => parser.handle = "open"

\* C34 witness: with the flag set, the remote API answered 500 and then 422;
\* the generator yielded the error record, ended, and the file is closed
C34_Witness ==
    /\ parser.pc = "exhausted"
    /\ parser.format.skip_unprocessable_files
    /\ attempts = <<500, 422>>
    /\ parser.records = <<[content |-> [t |-> "none"],
                           parse_error |-> [t |-> "str",
                                            s |-> "RecordParseError"]]>>
    /\ parser.handle = "closed"


\* InterpolatedBoolean.eval has returned
BooleanEvalReturned == last_eval.name = "InterpolatedBoolean.eval"

\* C35: InterpolatedBoolean.eval never propagates a templating failure: when
\* the evaluation of a string condition fails in the engine the default
\* 'False' is used and eval returns false; a condition that is already a
\* boolean is returned unchanged, whatever the context resolves templates to.
C35_NoTemplatingFailure ==
    BooleanEvalReturned =>
        /\ last_eval.result \in BOOLEAN
        /\ (ib_condition.t = "str" /\ ib_condition.s \in Templates
              /\ context[ib_condition.s] = [t |-> "fail"]) =>
              last_eval.result = FALSE
        /\ ib_condition.t = "bool" => last_eval.result = ib_condition.b

\* C35 witness: the template of the condition failed in the engine and eval
\* returned false
C35_Witness ==
    /\ BooleanEvalReturned
    /\ ib_condition = [t |-> "str", s |-> "{{ a }}"]
    /\ context["{{ a }}"] = [t |-> "fail"]
    /\ last_eval.result = FALSE


\* The config paths a schema marks secret, in schema traversal order: the
\* path of a schema whose airbyte_secret flag is true, the fields of its
\* 'properties' under their names, the alternatives of its 'oneOf' in place
RECURSIVE MarkedPaths(_, _), MarkedInEntries(_, _, _), MarkedInFields(_, _, _)
RECURSIVE MarkedInAlternatives(_, _, _)
MarkedPaths(schema, path) == MarkedInEntries(schema.items, 1, path)

MarkedInEntries(items, i, path) ==
    IF i > Len(items)
    THEN <<>>
    ELSE (CASE items[i].key = "airbyte_secret" ->
                  IF items[i].value = [t |-> "bool", b |-> TRUE]
                  THEN <<path>> ELSE <<>>
            [] items[i].key = "properties" ->
                  MarkedInFields(items[i].value.items, 1, path)
            [] items[i].key = "oneOf" ->
                  MarkedInAlternatives(items[i].value.elems, 1, path)
            [] OTHER -> <<>>)
         \o MarkedInEntries(items, i + 1, path)

MarkedInFields(fields, i, path) ==
    IF i > Len(fields)
    THEN <<>>
    ELSE MarkedPaths(fields[i].value, Append(path, fields[i].key))
             \o MarkedInFields(fields, i + 1, path)

MarkedInAlternatives(alternatives, i, path) ==
    IF i > Len(alternatives)
    THEN <<>>
    ELSE MarkedPaths(alternatives[i], path)
             \o MarkedInAlternatives(alternatives, i + 1, path)

\* The value a config holds at a path of names, if any
RECURSIVE ValueAt(_, _)
ValueAt(value, path) ==
    IF path = <<>> THEN value
    ELSE IF value.t # "dict" \/ ~HasKey(value, Head(path)) THEN [t |-> "KeyError"]
    ELSE ValueAt(GetItem(value, Head(path)), Tail(path))

\* The values of the marked paths that the config holds, in order
RECURSIVE PresentValues(_, _, _)
PresentValues(paths, i, config) ==
    IF i > Len(paths)
    THEN <<>>
    ELSE (IF ValueAt(config, paths[i]) = [t |-> "KeyError"]
          THEN <<>> ELSE <<ValueAt(config, paths[i])>>)
         \o PresentValues(paths, i + 1, config)

\* get_secrets has returned
SecretsDiscovered == discovery.pc = "returned"

\* C36: get_secrets returns, in schema traversal order, the value the live
\* config holds at every schema path whose airbyte_secret flag is true (the
\* schema-only segments 'properties' and 'oneOf' removed); a marked path
\* missing from the config is skipped, and no value of an unmarked path is
\* returned.
C36_DiscoveryAsStated ==
    SecretsDiscovered =>
        discovery.result =
            PresentValues(MarkedPaths(discovery.connection_specification, <<>>),
                          1, discovery.config)


\* C37: for both strategies, next_page_token does not change the value
\* initial_token returns: between two reset calls initial_token is constant,
\* whatever pages are fetched.
C37_InitialTokenAsStated ==
    [][NextPageTokenStep => initial_token' = initial_token]_vars


\* The tokens returned since the last reset, in order
RECURSIVE TokensOf(_)
TokensOf(cs) ==
    IF cs = <<>> THEN <<>>
    ELSE IF IsToken(cs[1].ret) THEN <<cs[1].ret>> \o TokensOf(Tail(cs))
    ELSE TokensOf(Tail(cs))

\* The counter less the tokens handed out since the last reset
CounterBase == page - Len(TokensOf(calls))

\* A step that is a successful reset
ResetStep == op'.name = "reset" /\ ~op'.raised

C38_Tokens ==
    (kind = "PageIncrement" /\ constructed) =>
        /\ op.name = "init" => CounterBase = start_from_page
        /\ (op.name = "reset" /\ ~op.raised) => CounterBase = ResetTarget(op.value)
        /\ \A k \in 1..Len(TokensOf(calls)) :
               TokensOf(calls)[k] = PyInt(CounterBase + k)

C38_Step ==
    (kind = "PageIncrement" /\ ~ResetStep) =>
        /\ CounterBase' = CounterBase
        /\ page' >= page
        /\ (NextPageTokenStep /\ op'.ret = None) => page' = page

\* C38: between two resets of a PageIncrement the tokens that successive
\* next_page_token calls return are s+1, s+2, s+3, ... without gap or
\* repetition, where s is start_from_page or the integer given to the last
\* reset; a call that returns None does not move the counter, and the counter
\* never decreases except through reset.
C38_ConsecutiveTokens == []C38_Tokens /\ [][C38_Step]_vars

\* C38 witness: after reset(2) on a strategy that starts from page 0, a full
\* page, an empty page and a full page gave the tokens 3, None and 4
C38_Witness ==
    /\ kind = "PageIncrement"
    /\ start_from_page = 0
    /\ Len(calls) = 3
    /\ calls[1].ret = [t |-> "int", i |-> 3]
    /\ calls[2].ret = [t |-> "none"]
    /\ calls[3].ret = [t |-> "int", i |-> 4]
    /\ page = 4


\* C39: for every constructed StreamSlice, nested or not, the mapping view
\* (keys, items, length, item lookup, JSON form) is the union of the partition
\* and the cursor_slice its accessors return, its length is
\* |partition| + |cursor_slice|, and no key of extra_fields appears in it.
C39_MappingViewAsStated ==
    slice # None =>
        /\ MappingView(slice) = DictUnion(StreamSlice_partition(slice).items,
                                          StreamSlice_cursor_slice(slice).items)
        /\ Cardinality(MappingKeys(slice)) =
               Cardinality(PartitionKeys(slice)) + Cardinality(CursorSliceKeys(slice))
        /\ MappingKeys(slice) \cap DOMAIN StreamSlice_extra_fields(slice).items = {}


\* a == b in Python on slices and plain dicts
Equal(a, b) == PyEq(a, b)

\* The values a comparison has at hand: the slice under comparison, and what
\* it is compared with; the relation is examined on the triples the slice is
\* the first or the middle element of
Comparands == {slice} \cup {o \in Others(slice) : o.t \in {"dict", "StreamSlice"}}

\* a = c whenever a = b and b = c
Transitive(a, b, c) == (Equal(a, b) /\ Equal(b, c)) => Equal(a, c)

\* Whenever a = b and b = c, a and c have equal merged mappings, and a = c
\* if one of them is a plain dict
SameView(a, b, c) ==
    (Equal(a, b) /\ Equal(b, c)) =>
        /\ MappingView(a) = MappingView(c)
        /\ (a.t = "dict" \/ c.t = "dict") => Equal(a, c)

\* C40: equality over StreamSlice values and plain mappings is an equivalence
\* relation: reflexive, symmetric, and a = c whenever a = b and b = c; in
\* particular two StreamSlices equal to the same dict are equal to each other.
C40_EquivalenceAsStated ==
    slice # None =>
        \A x, y \in Comparands :
            /\ Equal(x, x)
            /\ Equal(x, y) => Equal(y, x)
            /\ Transitive(slice, x, y)
            /\ Transitive(x, slice, y)


C40_Relation ==
    slice # None =>
        \A x, y \in Comparands :
            /\ Equal(x, x)
            /\ Equal(x, y) => Equal(y, x)
            /\ SameView(slice, x, y)
            /\ SameView(x, slice, y)

C40_Compared ==
    (sop.name = "eq" /\ sop.other.t \in {"dict", "StreamSlice"}) =>
        /\ sop.result = Equal(slice, sop.other)
        /\ sop.result = Equal(sop.other, slice)

\* C40 amended: equality over StreamSlice values and plain mappings is
\* reflexive and symmetric, and whenever a = b and b = c hold, a and c have
\* equal merged mappings, so that a = c holds if a or c is a plain dict; two
\* StreamSlices that are equal to the same dict need not be equal to each
\* other.
C40_ReflexiveSymmetric == C40_Relation /\ C40_Compared

\* C40 witness: the slice was compared with the dict of its merged mapping
\* and is equal to it, and so is another slice that is not equal to the slice
C40_Witness ==
    /\ sop.name = "eq"
    /\ sop.other.t = "dict"
    /\ sop.result
    /\ \E c \in PlainSlices :
          /\ Equal(sop.other, c)
          /\ ~Equal(slice, c)

====
